---- MODULE Spec2Model ----
(***************************************************************************)
(* A model of the tex-to-latex converter.                                  *)
(*                                                                         *)
(* Three programs are modelled, each with its own specification:           *)
(*   Spec        processor/pandoc-vanvliet-preprocess.py  (main)           *)
(*   SpecLegacy  pandoc-vanvliet-preprocess.py            (module body)    *)
(*   SpecFilter  processor/pandoc-vanvliet.py             (run_filters)    *)
(*                                                                         *)
(* Texts are TLA+ strings holding the very characters the Python code      *)
(* sees; every regular expression of the source is modelled by a scanner   *)
(* over those characters.                                                  *)
(***************************************************************************)
EXTENDS Naturals, Integers, Sequences, FiniteSets, TLC

VARIABLES
    pc,        \* position of the running program
    content,   \* the `content` string of the preprocessors
    fs,        \* the file system: path |-> contents of each regular file
    method,    \* --figmethod
    tools,     \* the external conversion tools of this machine
    diag,      \* lines printed to stderr, in order
    reads,     \* the paths open() was called on for reading, in order
    calls,     \* external tool invocations, in order
    exit_status, \* exit status of the process once it has ended, else -1
    output,    \* the intermediate artifact written, or NoFile
    hist,      \* content as it was after each completed stage
    regions,   \* the figure regions replaced so far, each with its outcome
    doc,       \* the filter's document: a sequence of nodes
    pass,      \* index of the filter pass being run
    pos,       \* index of the next node the running pass visits
    acronyms,  \* the filter's global acronyms
    refcounts, \* the filter's global refcounts
    figures,   \* the filter's global figures
    tables     \* the filter's global tables

vars == <<pc, content, fs, method, tools, diag, reads, calls, exit_status,
          output, hist, regions, doc, pass, pos, acronyms, refcounts, figures, tables>>

textVars == <<content, fs, method, tools, diag, reads, calls, exit_status,
              output, hist, regions>>

filterVars == <<doc, pass, pos, acronyms, refcounts, figures, tables>>

NoFile == [written |-> FALSE]

(***************************************************************************)
(* Strings: Python str operations used by the source.                      *)
(***************************************************************************)

\* s[i:j] with 1-based inclusive bounds
Sub(s, i, j) == SubSeq(s, i, j)

\* s[i-1:] of Python: the suffix starting at the i-th character
From(s, i) == SubSeq(s, i, Len(s))

\* s.startswith(p, i-1): p occurs in s at position i
StartsAt(s, p, i) ==
    /\ i >= 1
    /\ i + Len(p) - 1 <= Len(s)
    /\ SubSeq(s, i, i + Len(p) - 1) = p

startswith(s, p) == StartsAt(s, p, 1)

endswith(s, p) == Len(p) <= Len(s) /\ StartsAt(s, p, Len(s) - Len(p) + 1)

\* the positions i..Len(s) where p occurs in s
Occurrences(s, p, i) ==
    { j \in i..(Len(s) - Len(p) + 1) : SubSeq(s, j, j + Len(p) - 1) = p }

\* the least position of a set of positions, 0 when it is empty
First(hits) ==
    IF hits = {} THEN 0 ELSE CHOOSE j \in hits : \A k \in hits : j <= k

\* the greatest position of a set of positions, 0 when it is empty
Last(hits) ==
    IF hits = {} THEN 0 ELSE CHOOSE j \in hits : \A k \in hits : j >= k

\* s.find(p, i-1) + 1: the least position >= i where p occurs, 0 when none
Find(s, p, i) == First(Occurrences(s, p, i))

\* p in s
Contains(s, p) == Occurrences(s, p, 1) # {}

\* s.rfind(p) + 1: the greatest position where p occurs, 0 when none
RFind(s, p) == Last(Occurrences(s, p, 1))

\* re.sub of a literal pattern p by the literal r: one left-to-right pass over
\* s, the matches not overlapping, the replacement text not scanned again.
\* ReplaceAt continues from position i with the next match at j.
RECURSIVE ReplaceAllFrom(_, _, _, _)
ReplaceAt(s, p, r, i, j) ==
    IF j = 0 THEN From(s, i)
    ELSE Sub(s, i, j - 1) \o r \o ReplaceAllFrom(s, p, r, j + Len(p))

ReplaceAllFrom(s, p, r, i) == ReplaceAt(s, p, r, i, Find(s, p, i))

ReplaceAll(s, p, r) == ReplaceAllFrom(s, p, r, 1)

\* s.count(p): the non-overlapping occurrences of p in s
RECURSIVE CountFrom(_, _, _)
CountAt(s, p, j) == IF j = 0 THEN 0 ELSE 1 + CountFrom(s, p, j + Len(p))

CountFrom(s, p, i) == CountAt(s, p, Find(s, p, i))

Count(s, p) == CountFrom(s, p, 1)

\* the characters str.strip() and str.rstrip() remove
Whitespace == {" ", "\n", "\t", "\r", "\f"}

RECURSIVE rstrip(_)
rstrip(s) ==
    IF Len(s) > 0 /\ Sub(s, Len(s), Len(s)) \in Whitespace
    THEN rstrip(Sub(s, 1, Len(s) - 1))
    ELSE s

RECURSIVE lstrip(_)
lstrip(s) ==
    IF Len(s) > 0 /\ Sub(s, 1, 1) \in Whitespace
    THEN lstrip(From(s, 2))
    ELSE s

strip(s) == lstrip(rstrip(s))

\* s.split(d): the pieces of s between the occurrences of d
RECURSIVE SplitFrom(_, _, _)
SplitAt(s, d, i, j) ==
    IF j = 0 THEN <<From(s, i)>>
    ELSE <<Sub(s, i, j - 1)>> \o SplitFrom(s, d, j + Len(d))

SplitFrom(s, d, i) == SplitAt(s, d, i, Find(s, d, i))

split(s, d) == SplitFrom(s, d, 1)

\* d.join(parts)
RECURSIVE join(_, _)
join(d, parts) ==
    IF Len(parts) = 0 THEN ""
    ELSE IF Len(parts) = 1 THEN parts[1]
    ELSE parts[1] \o d \o join(d, Tail(parts))

\* s.lower(), on ASCII
LowerOf(c) ==
    CASE c = "A" -> "a" [] c = "B" -> "b" [] c = "C" -> "c" [] c = "D" -> "d"
      [] c = "E" -> "e" [] c = "F" -> "f" [] c = "G" -> "g" [] c = "H" -> "h"
      [] c = "I" -> "i" [] c = "J" -> "j" [] c = "K" -> "k" [] c = "L" -> "l"
      [] c = "M" -> "m" [] c = "N" -> "n" [] c = "O" -> "o" [] c = "P" -> "p"
      [] c = "Q" -> "q" [] c = "R" -> "r" [] c = "S" -> "s" [] c = "T" -> "t"
      [] c = "U" -> "u" [] c = "V" -> "v" [] c = "W" -> "w" [] c = "X" -> "x"
      [] c = "Y" -> "y" [] c = "Z" -> "z"
      [] OTHER -> c

RECURSIVE lower(_)
lower(s) ==
    IF Len(s) = 0 THEN "" ELSE LowerOf(Sub(s, 1, 1)) \o lower(From(s, 2))

(***************************************************************************)
(* os.path on POSIX, as the source calls it.                               *)
(***************************************************************************)

os_sep == "/"

os_path_join(a, b) ==
    IF startswith(b, os_sep) THEN b
    ELSE IF a = "" \/ endswith(a, os_sep) THEN a \o b
    ELSE a \o os_sep \o b

RECURSIVE AllSlashes(_)
AllSlashes(s) ==
    Len(s) = 0 \/ (Sub(s, 1, 1) = os_sep /\ AllSlashes(From(s, 2)))

RECURSIVE RStripSlashes(_)
RStripSlashes(s) ==
    IF Len(s) > 0 /\ endswith(s, os_sep) THEN RStripSlashes(Sub(s, 1, Len(s) - 1))
    ELSE s

\* the head of os.path.split, trailing separators removed unless it is the root
DirHead(head) ==
    IF head # "" /\ ~AllSlashes(head) THEN RStripSlashes(head) ELSE head

dirname(p) == DirHead(Sub(p, 1, RFind(p, os_sep)))

basename(p) == From(p, RFind(p, os_sep) + 1)

\* whether some position in i..dot-1 holds a character other than "."
HasNonDot(p, i, dot) == \E k \in i..(dot - 1) : Sub(p, k, k) # "."

\* os.path.splitext(p): <<root, ext>>
SplitExtAt(p, sepIndex, dotIndex) ==
    IF dotIndex > sepIndex /\ HasNonDot(p, sepIndex + 1, dotIndex)
    THEN <<Sub(p, 1, dotIndex - 1), From(p, dotIndex)>>
    ELSE <<p, "">>

splitext(p) == SplitExtAt(p, RFind(p, os_sep), RFind(p, "."))

RECURSIVE NormComps(_, _, _)
NormComps(comps, new_comps, initial_slashes) ==
    IF Len(comps) = 0 THEN new_comps
    ELSE IF Head(comps) \in {"", "."}
    THEN NormComps(Tail(comps), new_comps, initial_slashes)
    ELSE IF \/ Head(comps) # ".."
            \/ (initial_slashes = 0 /\ Len(new_comps) = 0)
            \/ (Len(new_comps) > 0 /\ new_comps[Len(new_comps)] = "..")
    THEN NormComps(Tail(comps), Append(new_comps, Head(comps)), initial_slashes)
    ELSE IF Len(new_comps) > 0
    THEN NormComps(Tail(comps), SubSeq(new_comps, 1, Len(new_comps) - 1),
                   initial_slashes)
    ELSE NormComps(Tail(comps), new_comps, initial_slashes)

InitialSlashes(path) ==
    IF ~startswith(path, os_sep) THEN 0
    ELSE IF startswith(path, "//") /\ ~startswith(path, "///") THEN 2
    ELSE 1

NormPrefix(initial_slashes) ==
    IF initial_slashes = 2 THEN "//"
    ELSE IF initial_slashes = 1 THEN "/"
    ELSE ""

OrDot(path) == IF path = "" THEN "." ELSE path

NormWith(path, initial_slashes) ==
    OrDot(NormPrefix(initial_slashes)
          \o join(os_sep, NormComps(split(path, os_sep), <<>>, initial_slashes)))

normpath(path) == NormWith(path, InitialSlashes(path))

\* The file system holds regular files; a directory is there when a file
\* lies below it. q is the normalised path.
IsFileNorm(files, q) == q \in DOMAIN files

IsDirNorm(files, q) ==
    \E f \in DOMAIN files :
        startswith(f, IF endswith(q, os_sep) THEN q ELSE q \o os_sep)

isfile(files, p) == IsFileNorm(files, normpath(p)) /\ ~endswith(p, os_sep)

\* a path with a trailing separator names a directory only
ExistsNorm(files, p, q) ==
    \/ IsFileNorm(files, q) /\ ~endswith(p, os_sep)
    \/ IsDirNorm(files, q)

exists(files, p) == ExistsNorm(files, p, normpath(p))

(***************************************************************************)
(* Inclusion Expander: process_inputs.                                     *)
(***************************************************************************)

\* Nesting depth at which Python's recursion limit ends the expansion.
MaxDepth == 3

\* the exception raised at that depth
RecursionError == "RecursionError"

ensure_tex(filename) ==
    IF endswith(lower(filename), ".tex") THEN filename ELSE filename \o ".tex"

InputOpen == "\\input{"

NoMatch == [start |-> 0, end |-> 0, path |-> ""]

\* A variant of InputEnd that also takes \input{} for a directive.
InputEndEmpty(s, j, e) ==
    IF e = 0 THEN NoMatch
    ELSE [start |-> j, end |-> e, path |-> Sub(s, j + Len(InputOpen), e - 1)]

\* The next match of \\input{([^}]+)} at or after position i:
\* [start, end, path], start = 0 when there is none. j is the next
\* "\input{" and e the first "}" after it.
RECURSIVE NextInput(_, _)
InputEnd(s, j, e) ==
    IF e = 0 THEN NoMatch
    ELSE IF e = j + Len(InputOpen) THEN NextInput(s, j + 1)
    ELSE [start |-> j, end |-> e, path |-> Sub(s, j + Len(InputOpen), e - 1)]

InputAt(s, j) ==
    IF j = 0 THEN NoMatch ELSE InputEnd(s, j, Find(s, "}", j + Len(InputOpen)))

NextInput(s, i) == InputAt(s, Find(s, InputOpen, i))

\* lines 41-46: the alternative is taken when the first candidate is absent,
\* the path starts with the root alias and the alternative exists
PickCandidate(files, candidate, aliased, candidate_alt) ==
    IF ~exists(files, candidate) /\ aliased /\ exists(files, candidate_alt)
    THEN candidate_alt
    ELSE candidate

CandidateOf(files, input_file_norm, base_path) ==
    PickCandidate(
        files,
        ensure_tex(os_path_join(base_path, input_file_norm)),
        startswith(input_file_norm, "paper" \o os_sep),
        os_path_join(base_path,
            ensure_tex(normpath(From(input_file_norm,
                                     Len("paper" \o os_sep) + 1)))))

\* The file replace_input opens for a directive (lines 37-46).
Candidate(files, input_file, base_path) ==
    CandidateOf(files, normpath(input_file), base_path)

Exit(msg, opened) ==
    [ok |-> FALSE, text |-> "", reads |-> opened, msg |-> msg]

\* process_inputs and replace_input. The result is
\*   [ok, text, reads, msg]: ok = FALSE when sys.exit was called, with the
\*   message in msg; reads lists the paths open() was called on, in order.
RECURSIVE process_inputs(_, _, _, _)
RECURSIVE ExpandFrom(_, _, _, _, _)

\* A variant of OpenCandidate that reads a missing file as an empty one.
OpenOrSkip(files, candidate, depth) ==
    IF ~exists(files, candidate)
    THEN [ok |-> TRUE, text |-> "", reads |-> <<candidate>>, msg |-> ""]
    ELSE IF depth >= MaxDepth
    THEN [ok |-> FALSE, text |-> "", reads |-> <<candidate>>,
          msg |-> RecursionError]
    ELSE [process_inputs(files, files[normpath(candidate)],
                         dirname(candidate), depth + 1)
              EXCEPT !.reads = <<candidate>> \o @]

\* A variant of OpenCandidate that expands every file against the directory
\* /p of the root file.
OpenAtRoot(files, candidate, depth) ==
    IF ~exists(files, candidate)
    THEN Exit("Error: Unable to locate input file: " \o candidate,
              <<candidate>>)
    ELSE IF ~isfile(files, candidate)
    THEN Exit("Error processing input file " \o candidate, <<candidate>>)
    ELSE IF depth >= MaxDepth
    THEN Exit(RecursionError, <<candidate>>)
    ELSE [process_inputs(files, files[normpath(candidate)], "/p", depth + 1)
              EXCEPT !.reads = <<candidate>> \o @]

AfterRead(candidate, r) == [r EXCEPT !.reads = <<candidate>> \o r.reads]

\* lines 47-53
OpenCandidate(files, candidate, depth) ==
    IF ~exists(files, candidate)
    THEN Exit("Error: Unable to locate input file: " \o candidate,
              <<candidate>>)
    ELSE IF ~isfile(files, candidate)
    THEN Exit("Error processing input file " \o candidate, <<candidate>>)
    ELSE IF depth >= MaxDepth
    THEN Exit(RecursionError, <<candidate>>)
    ELSE AfterRead(candidate,
                   process_inputs(files, files[normpath(candidate)],
                                  dirname(candidate), depth + 1))

replace_input(files, input_file, base_path, depth) ==
    OpenCandidate(files, Candidate(files, input_file, base_path), depth)

Spliced(before, one, rest) ==
    IF ~rest.ok THEN [rest EXCEPT !.reads = one.reads \o rest.reads]
    ELSE [ok |-> TRUE, text |-> before \o one.text \o rest.text,
          reads |-> one.reads \o rest.reads, msg |-> ""]

ExpandOne(files, s, base_path, i, depth, m, one) ==
    IF ~one.ok THEN one
    ELSE Spliced(Sub(s, i, m.start - 1), one,
                 ExpandFrom(files, s, base_path, m.end + 1, depth))

ExpandMatch(files, s, base_path, i, depth, m) ==
    IF m.start = 0
    THEN [ok |-> TRUE, text |-> From(s, i), reads |-> <<>>, msg |-> ""]
    ELSE ExpandOne(files, s, base_path, i, depth, m,
                   replace_input(files, m.path, base_path, depth))

\* input_pattern.sub(replace_input, content) from position i on
ExpandFrom(files, s, base_path, i, depth) ==
    ExpandMatch(files, s, base_path, i, depth, NextInput(s, i))

process_inputs(files, text, base_path, depth) ==
    ExpandFrom(files, text, base_path, 1, depth)

(***************************************************************************)
(* preprocess_latex, after the expansion, and the Document Finalizer.      *)
(***************************************************************************)

EndDocument == "\\end{document}"

DebugBlock == "\n\n% Debug information\n% End of document reached\n"

NewColumnType == "\\newcolumntype{"

\* re.sub(head + r'.*?}', '', s) for a head ending in "{": "." matches no
\* line break. j is the next head, e the first "}" after it and nl the
\* first line break after it.
RECURSIVE RemoveBraced(_, _, _)
RemoveBracedAt(s, head, i, j, e, nl) ==
    IF j = 0 \/ e = 0 THEN From(s, i)
    ELSE IF nl # 0 /\ nl < e
    THEN Sub(s, i, j) \o RemoveBraced(s, head, j + 1)
    ELSE Sub(s, i, j - 1) \o RemoveBraced(s, head, e + 1)

RemoveBracedFind(s, head, i, j) ==
    IF j = 0 THEN From(s, i)
    ELSE RemoveBracedAt(s, head, i, j, Find(s, "}", j + Len(head)),
                        Find(s, "\n", j + Len(head)))

RemoveBraced(s, head, i) == RemoveBracedFind(s, head, i, Find(s, head, i))

\* re.sub(r'\\newcolumntype{.*?}', '', s)
StripNewColumnType(s, i) == RemoveBraced(s, NewColumnType, i)

\* the text the second \\newcolumntype pattern (line 69) matches
RaggedColumnType ==
    "\\newcolumntype{L}[1]{>{\\raggedright\\let\\newline\\\\arraybackslash\\hspace{0pt}}m{#1}}"

strip_column_types(s) ==
    ReplaceAll(StripNewColumnType(s, 1), RaggedColumnType, "")

\* re.sub(r'\\end{document}', '', content)
remove_end_document(s) == ReplaceAll(s, EndDocument, "")

\* A variant of append_end_document that keeps the trailing whitespace.
append_unstripped(s) == s \o DebugBlock \o EndDocument \o "\n"

\* content.rstrip() + "\n\n% Debug ...\n\\end{document}\n"
append_end_document(s) == rstrip(s) \o DebugBlock \o EndDocument \o "\n"

aligned_to_gather(s) ==
    ReplaceAll(ReplaceAll(s, "\\begin{aligned}", "\\begin{gather}"),
               "\\end{aligned}", "\\end{gather}")

\* lines 71-76 of preprocess_latex
finalize_in_preprocess(s) ==
    append_end_document(aligned_to_gather(remove_end_document(s)))

\* lines 311-312 of main
finalize_in_main(s) == append_end_document(remove_end_document(s))

(***************************************************************************)
(* Figure Canonicalizer: get_image_folders and center_figures.             *)
(***************************************************************************)

allowed_extensions == {".pdf", ".eps", ".png", ".jpg", ".jpeg"}

\* line 27: file.lower().endswith(allowed_extensions), lowered being
\* file.lower()
EndsAsImage(lowered) == \E x \in allowed_extensions : endswith(lowered, x)

\* the directories os.walk(base_path) visits that hold an image file
get_image_folders(files, base_path) ==
    { dirname(f) : f \in { g \in DOMAIN files :
          /\ startswith(g, base_path \o os_sep)
          /\ EndsAsImage(lower(g)) } }

\* list(image_folders): a set's iteration order is not fixed
RECURSIVE Orders(_)
Orders(S) ==
    IF S = {} THEN {<<>>}
    ELSE UNION { { <<x>> \o o : o \in Orders(S \ {x}) } : x \in S }

\* os.path.relpath(path, start) for a normalised path q at or below start,
\* which is where os.walk(start) finds its directories
RelNorm(q, start) ==
    IF q = start THEN "."
    ELSE IF startswith(q, start \o os_sep)
    THEN From(q, Len(start \o os_sep) + 1)
    ELSE q

relpath(path, start) == RelNorm(normpath(path), start)

IncludeGraphics == "\\includegraphics"

\* The next match of head(?:\[.*?\])?\{(.*?)\} at or after i:
\* [start, end, path], start = 0 when there is none. j is the next head,
\* eol the end of its line, open the "{" of the match and c the first "}"
\* after it.
RECURSIVE NextBraced(_, _, _)
BracedClose(s, head, j, eol, open, c) ==
    IF c # 0 /\ c < eol
    THEN [start |-> j, end |-> c, path |-> Sub(s, open + 1, c - 1)]
    ELSE NextBraced(s, head, j + 1)

BracedOpen(s, head, j, eol, open) ==
    IF open = 0 THEN NextBraced(s, head, j + 1)
    ELSE BracedClose(s, head, j, eol, open, Find(s, "}", open + 1))

\* the "{" after an optional [...] that starts at k and stays on the line
AfterOption(b, eol) == IF b # 0 /\ b < eol THEN b + 1 ELSE 0

OpenBrace(s, k, eol) ==
    IF StartsAt(s, "{", k) THEN k
    ELSE IF StartsAt(s, "[", k) THEN AfterOption(Find(s, "]{", k + 1), eol)
    ELSE 0

EndOfLine(s, nl) == IF nl = 0 THEN Len(s) + 1 ELSE nl

BracedLine(s, head, j, k, eol) ==
    BracedOpen(s, head, j, eol, OpenBrace(s, k, eol))

BracedAt(s, head, j) ==
    IF j = 0 THEN NoMatch
    ELSE BracedLine(s, head, j, j + Len(head),
                    EndOfLine(s, Find(s, "\n", j + Len(head))))

NextBraced(s, head, i) == BracedAt(s, head, Find(s, head, i))

\* re.search(r'\\includegraphics(?:\[.*?\])?\{(.*?)\}', s) from i on
NextImage(s, i) == NextBraced(s, IncludeGraphics, i)

\* re.sub of the image pattern by new_cmd over the figure content
RECURSIVE ReplaceImages(_, _, _)
ReplaceImageAt(s, new_cmd, i, m) ==
    IF m.start = 0 THEN From(s, i)
    ELSE Sub(s, i, m.start - 1) \o new_cmd
         \o ReplaceImages(s, new_cmd, m.end + 1)

ReplaceImages(s, new_cmd, i) == ReplaceImageAt(s, new_cmd, i, NextImage(s, i))

\* lines 222-231: the first folder of the list holding a file of that name,
\* "" when none
RECURSIVE FirstFolder(_, _, _)
FirstFolder(files, folders, name) ==
    IF Len(folders) = 0 THEN ""
    ELSE IF exists(files, os_path_join(Head(folders), name)) THEN Head(folders)
    ELSE FirstFolder(files, Tail(folders), name)

Directive(image_path) ==
    "\\includegraphics[width=0.6\\textwidth]{" \o image_path \o "}"

\* lines 260-271
NewCmd(m, image_path) ==
    IF m = 1 THEN "\\centering" \o Directive(image_path)
    ELSE IF m = 2
    THEN "\\begin{center}" \o Directive(image_path) \o "\\end{center}"
    ELSE IF m = 3 THEN "\\centerline{" \o Directive(image_path) \o "}"
    ELSE IF m = 4 THEN Directive(image_path)
    ELSE "\\centering" \o Directive(image_path)

\* lines 281-287
Wrap(m, new_figure_content) ==
    IF m = 4
    THEN "\\par\\medskip\\begin{center}" \o strip(new_figure_content)
         \o "\\end{center}\\medskip\\par"
    ELSE IF m = 2
    THEN "\\begin{figure}\n" \o strip(new_figure_content) \o "\n\\end{figure}"
    ELSE "\\begin{figure}\\centering\n" \o strip(new_figure_content)
         \o "\n\\end{figure}"

\* center_figure_content on one region. c = [region, figure_content,
\* base_path, folders, method, tools, files, diag, calls] holds the match, the
\* arguments of center_figures and the machine before the region; the result
\* is [text, files, diag, calls], text the replacement of the region.

\* A variant of Skipped that wraps the region like a region without image.
SkippedWrapped(c, line) ==
    [text |-> Wrap(c.method, c.figure_content), files |-> c.files,
     diag |-> Append(c.diag, line), calls |-> c.calls]

\* return match.group(0) after printing a diagnostic
Skipped(c, line) ==
    [text |-> c.region, files |-> c.files, diag |-> Append(c.diag, line),
     calls |-> c.calls]

\* A variant of Rewritten that rewrites the first image directive only.
ReplaceFirstImage(s, new_cmd, m) ==
    IF m.start = 0 THEN s
    ELSE Sub(s, 1, m.start - 1) \o new_cmd \o From(s, m.end + 1)

RewrittenFirst(c, image_path, files, cs) ==
    [text |-> Wrap(c.method,
                   ReplaceFirstImage(c.figure_content,
                                     NewCmd(c.method, image_path),
                                     NextImage(c.figure_content, 1))),
     files |-> files, diag |-> c.diag, calls |-> cs]

\* lines 259-288: rewrite every image directive and wrap the region
Rewritten(c, image_path, files, cs) ==
    [text |-> Wrap(c.method, ReplaceImages(c.figure_content,
                                           NewCmd(c.method, image_path), 1)),
     files |-> files, diag |-> c.diag, calls |-> cs]

\* the file a successful conversion writes
WithFile(files, q) ==
    [f \in DOMAIN files \cup {q} |-> IF f = q THEN "image" ELSE files[f]]

\* A variant of RunTool that takes no notice of the tool's exit status.
RunToolUnchecked(c, image_path, png_path, full_png_path, call) ==
    IF call.tool = ""
    THEN Skipped(c, "Error: Unsupported file format: " \o image_path)
    ELSE IF c.tools[call.tool] = "missing"
    THEN Skipped(c, "Error: Required conversion tools not found. Please install ImageMagick and poppler-utils.")
    ELSE IF c.tools[call.tool] = "fail"
    THEN Rewritten(c, png_path, c.files, Append(c.calls, call))
    ELSE Rewritten(c, png_path, WithFile(c.files, normpath(full_png_path)),
                   Append(c.calls, call))

\* lines 240-258: one external conversion. The tool's outcome is "ok" (exit
\* status 0, target written), "fail" (non-zero exit) or "missing" (no such
\* executable).
RunTool(c, image_path, png_path, full_png_path, call) ==
    IF call.tool = ""
    THEN Skipped(c, "Error: Unsupported file format: " \o image_path)
    ELSE IF c.tools[call.tool] = "missing"
    THEN Skipped(c, "Error: Required conversion tools not found. Please install ImageMagick and poppler-utils.")
    ELSE IF c.tools[call.tool] = "fail"
    THEN [Skipped(c, "Error: Failed to convert " \o image_path \o " to PNG")
              EXCEPT !.calls = Append(c.calls, call)]
    ELSE Rewritten(c, png_path, WithFile(c.files, normpath(full_png_path)),
                   Append(c.calls, call))

\* lines 241-249: the tool chosen by the extension, and its arguments
ToolCall(image_path, full_path, full_png_path) ==
    IF endswith(lower(image_path), ".eps")
    THEN [tool |-> "convert", src |-> full_path, dst |-> full_png_path]
    ELSE IF endswith(lower(image_path), ".pdf")
    THEN [tool |-> "pdftoppm", src |-> full_path,
          dst |-> splitext(full_png_path)[1]]
    ELSE [tool |-> "", src |-> full_path, dst |-> ""]

\* A variant of ConvertTo that converts whether the target is there or not.
ConvertAgain(c, image_path, full_path, png_path, full_png_path) ==
    RunTool(c, image_path, png_path, full_png_path,
            ToolCall(image_path, full_path, full_png_path))

\* lines 238-258
ConvertTo(c, image_path, full_path, png_path, full_png_path) ==
    IF exists(c.files, full_png_path)
    THEN Rewritten(c, png_path, c.files, c.calls)
    ELSE RunTool(c, image_path, png_path, full_png_path,
                 ToolCall(image_path, full_path, full_png_path))

ConvertPng(c, image_path, full_path, png_path) ==
    ConvertTo(c, image_path, full_path, png_path,
              os_path_join(c.base_path, png_path))

\* A variant of Convert that leaves every image in the format it has.
ConvertNever(c, image_path, full_path) ==
    Rewritten(c, image_path, c.files, c.calls)

\* lines 236-258
Convert(c, image_path, full_path) ==
    IF endswith(lower(image_path), ".png")
    THEN Rewritten(c, image_path, c.files, c.calls)
    ELSE ConvertPng(c, image_path, full_path,
                    splitext(image_path)[1] \o ".png")

\* lines 221-234: the search of the image folders
FoundIn(c, full_path, candidate) ==
    Convert(c, relpath(candidate, c.base_path), candidate)

Searched(c, full_path, name, folder) ==
    IF folder = ""
    THEN Skipped(c, "Error: Original file not found: " \o full_path)
    ELSE FoundIn(c, full_path, os_path_join(folder, name))

\* lines 219-220
Located(c, image_path, full_path) ==
    IF exists(c.files, full_path) THEN Convert(c, image_path, full_path)
    ELSE Searched(c, full_path, basename(image_path),
                  FirstFolder(c.files, c.folders, basename(image_path)))

Resolved(c, image_path) ==
    Located(c, image_path, os_path_join(c.base_path, image_path))

\* lines 217-218
StripAlias(image_path) ==
    IF startswith(image_path, "paper" \o os_sep)
    THEN From(image_path, Len("paper" \o os_sep) + 1)
    ELSE image_path

\* A variant of Matched that returns a region without image as it was.
MatchedKept(c, image_match) ==
    IF image_match.start = 0
    THEN [text |-> c.region, files |-> c.files, diag |-> c.diag,
          calls |-> c.calls]
    ELSE Resolved(c, StripAlias(image_match.path))

\* lines 213-216 and 278-288
Matched(c, image_match) ==
    IF image_match.start = 0
    THEN [text |-> Wrap(c.method, c.figure_content), files |-> c.files,
          diag |-> c.diag, calls |-> c.calls]
    ELSE Resolved(c, StripAlias(image_match.path))

center_figure_content(c) == Matched(c, NextImage(c.figure_content, 1))

FigureBegin == "\\begin{figure}"

FigureEnd == "\\end{figure}"

\* figure_pattern.sub(center_figure_content, content) from position i on.
\* env = [base_path, folders, method, tools]; st = [files, diag, calls,
\* regions]; j is the next begin marker and e the first end marker after it.
RECURSIVE CenterFrom(_, _, _, _)
Region(s, j, e, env, st) ==
    [region |-> Sub(s, j, e + Len(FigureEnd) - 1),
     figure_content |-> Sub(s, j + Len(FigureBegin), e - 1),
     base_path |-> env.base_path, folders |-> env.folders,
     method |-> env.method, tools |-> env.tools,
     files |-> st.files, diag |-> st.diag, calls |-> st.calls]

Untouched(s, i, st) ==
    [text |-> From(s, i), files |-> st.files, diag |-> st.diag,
     calls |-> st.calls, regions |-> st.regions]

Joined(before, one, rest) ==
    [rest EXCEPT !.text = before \o one.text \o rest.text]

\* what one call of center_figure_content did: the region it was given, the
\* text it returned, the lines it printed to stderr, the tools it ran and
\* the files present before it
Outcome(c, one) ==
    [region |-> c.region, text |-> one.text,
     lines |-> SubSeq(one.diag, Len(c.diag) + 1, Len(one.diag)),
     calls |-> SubSeq(one.calls, Len(c.calls) + 1, Len(one.calls)),
     files |-> c.files]

CenterOne(s, i, j, e, env, st, c, one) ==
    Joined(Sub(s, i, j - 1), one,
           CenterFrom(s, e + Len(FigureEnd), env,
                      [files |-> one.files, diag |-> one.diag,
                       calls |-> one.calls,
                       regions |-> Append(st.regions, Outcome(c, one))]))

CenterRegion(s, i, j, e, env, st, c) ==
    CenterOne(s, i, j, e, env, st, c, center_figure_content(c))

CenterEnd(s, i, j, e, env, st) ==
    IF e = 0 THEN Untouched(s, i, st)
    ELSE CenterRegion(s, i, j, e, env, st, Region(s, j, e, env, st))

CenterAt(s, i, j, env, st) ==
    IF j = 0 THEN Untouched(s, i, st)
    ELSE CenterEnd(s, i, j, Find(s, FigureEnd, j + Len(FigureBegin)), env, st)

CenterFrom(s, i, env, st) == CenterAt(s, i, Find(s, FigureBegin, i), env, st)

center_figures(s, env, st) == CenterFrom(s, 1, env, st)

(***************************************************************************)
(* The inputs of the preprocessor runs.                                    *)
(***************************************************************************)

\* Most pieces a root text of each family is made of.
MaxPieces == 3

MaxIncludes == 2

MaxRegions == 2

\* every concatenation of at most n of the pieces
RECURSIVE Texts(_, _)
Texts(pieces, n) ==
    IF n = 0 THEN {""}
    ELSE LET shorter == Texts(pieces, n - 1)
         IN  shorter \cup { t \o q : t \in shorter, q \in pieces }

RootPath == "/p/main.tex"

TextFiles ==
    ("/p/sec/a.tex" :> "A\\input{b}") @@ ("/p/sec/b.tex" :> "B")
    @@ ("/p/b.tex" :> "R") @@ ("/p/sec/m.tex" :> "M\\input{nope}")
    @@ ("/p/loop.tex" :> "L\\input{loop}")
    @@ ("/p/deep.tex" :> "D\\input{sec/a}")
    @@ ("/p/deeper.tex" :> "E\\input{deep}")
    @@ ("/p/paper/c.tex" :> "P") @@ ("/p/c.tex" :> "Q")

ImageFiles == {"/p/img/f.eps", "/p/img/g.pdf", "/p/h.png", "/p/img/j.jpg"}

FileSystem(root, images) ==
    (RootPath :> root) @@ TextFiles @@ [q \in images |-> "image"]

AllTools(o) == [convert |-> o, pdftoppm |-> o]

FinalizerPieces ==
    {"x", " \n", EndDocument, "\\end{doc", "ument}",
     "\\end{doc\\end{document}ument}"}

IncludePieces ==
    {"t", "\\input{sec/a}", "\\input{b}", "\\input{paper/b.tex}",
     "\\input{nope}", "\\input{sec/m}", "\\input{loop}", "\\input{}",
     "\\newcolumntype{C}", "\\begin{tabular}{c}\\mat{A} & b\n",
     "\\input{deeper}", "\\input{paper/c}"}

RegionPieces ==
    {"t\n",
     "\\begin{figure}\n\\includegraphics[width=1in]{img/f.eps}\n\\caption{c}\n\\end{figure}\n",
     "\\begin{figure}\\includegraphics{g.pdf}\\end{figure}",
     "\\begin{figure}\n\\includegraphics{paper/h.png}\\end{figure}",
     "\\begin{figure}\\includegraphics[w]{no.png} \\end{figure}",
     "\\begin{figure} \\caption{c}\\end{figure}",
     "\\begin{figure}\\includegraphics{img/j.jpg}\\end{figure}",
     "\\begin{figure}\\includegraphics{img/f.eps}\\includegraphics{h.png}\\end{figure}"}

\* the machines the figure runs happen on: [images, tools, method]
Machines ==
    { [images |-> ImageFiles, tools |-> AllTools("ok"), method |-> m] :
          m \in 1..4 }
    \cup { [images |-> ImageFiles, tools |-> t, method |-> 3] :
              t \in { [convert |-> "fail", pdftoppm |-> "ok"],
                      [convert |-> "ok", pdftoppm |-> "fail"],
                      [convert |-> "missing", pdftoppm |-> "missing"] } }
    \cup { [images |-> ImageFiles \cup {"/p/img/f.png"},
            tools |-> AllTools("missing"), method |-> 3],
           [images |-> ImageFiles \cup {"/p/alt/g.pdf"},
            tools |-> AllTools("ok"), method |-> 1] }

Runs ==
    { [root |-> r, machine |-> [images |-> ImageFiles,
                                 tools |-> AllTools("ok"), method |-> 3]] :
          r \in Texts(FinalizerPieces, MaxPieces)
                \cup Texts(IncludePieces, MaxIncludes) }
    \cup { [root |-> r, machine |-> k] :
              r \in Texts(RegionPieces, MaxRegions), k \in Machines }

(***************************************************************************)
(* processor/pandoc-vanvliet-preprocess.py: main, one action per stage.    *)
(***************************************************************************)

FilterIdle ==
    /\ doc = <<>>
    /\ pass = 0
    /\ pos = 0
    /\ acronyms = <<>>
    /\ refcounts = {}
    /\ figures = <<>>
    /\ tables = <<>>

Init ==
    /\ \E run \in Runs :
        /\ fs = FileSystem(run.root, run.machine.images)
        /\ tools = run.machine.tools
        /\ method = run.machine.method
    /\ pc = "start"
    /\ content = ""
    /\ diag = <<>>
    /\ reads = <<>>
    /\ calls = <<>>
    /\ exit_status = -1
    /\ output = NoFile
    /\ hist = <<>>
    /\ regions = <<>>
    /\ FilterIdle

base_path == dirname(RootPath)

Stage(name, text) == [stage |-> name, text |-> text]

\* The message of the sys.exit that ends a failed expansion. A RecursionError
\* is caught by the handler the stack still has room for: line 53, line 58,
\* line 79 or line 335.
ExitMessages(r) ==
    IF r.msg = RecursionError
    THEN {"Error processing input file " \o r.reads[Len(r.reads)],
          "Error processing \\input commands",
          "Error during LaTeX preprocessing",
          "An unexpected error occurred in pandoc-vanvliet-preprocess.py"}
    ELSE {r.msg}

\* preprocess_latex, lines 62-66: read the root file and expand it
Expanded(r) ==
    /\ reads' = <<RootPath>> \o r.reads
    /\ IF r.ok
       THEN /\ content' = r.text
            /\ pc' = "expanded"
            /\ hist' = Append(hist, Stage("expanded", r.text))
            /\ UNCHANGED <<diag, exit_status>>
       ELSE /\ pc' = "exited"
            /\ exit_status' = 1
            /\ \E line \in ExitMessages(r) : diag' = Append(diag, line)
            /\ UNCHANGED <<content, hist>>

ReadAndExpand ==
    /\ pc = "start"
    /\ Expanded(process_inputs(fs, fs[RootPath], base_path, 0))
    /\ UNCHANGED <<fs, method, tools, calls, output, regions>>
    /\ UNCHANGED filterVars

\* preprocess_latex, lines 68-69
StripColumnTypes ==
    /\ pc = "expanded"
    /\ content' = strip_column_types(content)
    /\ pc' = "stripped"
    /\ hist' = Append(hist, Stage("stripped", content'))
    /\ UNCHANGED <<fs, method, tools, diag, reads, calls, exit_status, output,
                   regions>>
    /\ UNCHANGED filterVars

\* preprocess_latex, lines 71-77
FinalizeInPreprocess ==
    /\ pc = "stripped"
    /\ content' = finalize_in_preprocess(content)
    /\ pc' = "preprocessed"
    /\ hist' = Append(hist, Stage("preprocessed", content'))
    /\ UNCHANGED <<fs, method, tools, diag, reads, calls, exit_status, output,
                   regions>>
    /\ UNCHANGED filterVars

\* main, line 308
Centered(r) ==
    /\ content' = r.text
    /\ fs' = r.files
    /\ diag' = r.diag
    /\ calls' = r.calls
    /\ regions' = r.regions
    /\ hist' = Append(hist, Stage("centered", r.text))

CenterFigures ==
    /\ pc = "preprocessed"
    /\ \E folders \in Orders(get_image_folders(fs, base_path)) :
        Centered(center_figures(
            content,
            [base_path |-> base_path, folders |-> folders, method |-> method,
             tools |-> tools],
            [files |-> fs, diag |-> diag, calls |-> calls,
             regions |-> regions]))
    /\ pc' = "centered"
    /\ UNCHANGED <<method, tools, reads, exit_status, output>>
    /\ UNCHANGED filterVars

\* main, lines 311-312
FinalizeInMain ==
    /\ pc = "centered"
    /\ content' = finalize_in_main(content)
    /\ pc' = "finalized"
    /\ hist' = Append(hist, Stage("finalized", content'))
    /\ UNCHANGED <<fs, method, tools, diag, reads, calls, exit_status, output,
                   regions>>
    /\ UNCHANGED filterVars

\* main, lines 314-329: write the intermediate artifact and end
WriteOutput ==
    /\ pc = "finalized"
    /\ output' = [written |-> TRUE, text |-> content]
    /\ pc' = "exited"
    /\ exit_status' = 0
    /\ UNCHANGED <<content, fs, method, tools, diag, reads, calls, hist,
                   regions>>
    /\ UNCHANGED filterVars

Next ==
    \/ ReadAndExpand
    \/ StripColumnTypes
    \/ FinalizeInPreprocess
    \/ CenterFigures
    \/ FinalizeInMain
    \/ WriteOutput

Spec == Init /\ [][Next]_vars

(***************************************************************************)
(* Properties of the preprocessor run (Spec).                              *)
(***************************************************************************)

Reached(name) == \E k \in 1..Len(hist) : hist[k].stage = name

\* content as it was when the stage of that name had completed
AtStage(name) ==
    hist[CHOOSE k \in 1..Len(hist) : hist[k].stage = name].text

\* center_figures returned its argument as it was
FinalizedInSuccession ==
    /\ Reached("finalized")
    /\ AtStage("centered") = AtStage("preprocessed")

\* C1: each time the Document Finalizer has run, in preprocess_latex and
\* again in main, the text holds exactly one \end{document}.
C1_OneTerminator ==
    \A k \in 1..Len(hist) :
        hist[k].stage \in {"preprocessed", "finalized"}
            => Count(hist[k].text, EndDocument) = 1

DebugLines == "\n\n% Debug information\n% End of document reached"

\* the text two finalizations in succession leave of t: its body, two
\* diagnostic comment blocks and the terminator
TwiceFinalized(t) ==
    remove_end_document(rstrip(aligned_to_gather(remove_end_document(t))))
    \o DebugLines \o DebugBlock \o EndDocument \o "\n"

RegionImage(region) == StripAlias(NextImage(region, 1).path)

\* the region names an image that is neither at its path under the base
\* directory nor, by name, in any directory holding images
ImageAbsent(o) ==
    /\ NextImage(o.region, 1).start # 0
    /\ ~exists(o.files, os_path_join(base_path, RegionImage(o.region)))
    /\ \A d \in get_image_folders(o.files, base_path) :
          ~exists(o.files, os_path_join(d, basename(RegionImage(o.region))))

\* C5: a figure region whose image exists neither at its literal path nor in
\* any image directory is put into the result as it was, one line is printed
\* for it, and the run goes on to write its output.
C5_AbsentImageKept ==
    \A k \in 1..Len(regions) :
        ImageAbsent(regions[k])
            => /\ regions[k].text = regions[k].region
               /\ Contains(AtStage("centered"), regions[k].region)
               /\ regions[k].lines
                     = <<"Error: Original file not found: "
                         \o os_path_join(base_path,
                                         RegionImage(regions[k].region))>>
               /\ exit_status \in {-1, 0}
               /\ pc = "exited" => output.written

C5_Witness ==
    /\ pc = "exited"
    /\ Len(regions) = 2
    /\ ImageAbsent(regions[1])
    /\ ~ImageAbsent(regions[2])
    /\ regions[2].text # regions[2].region

\* match.group(1) of a region: the text between its two markers
RegionContent(region) ==
    Sub(region, Len(FigureBegin) + 1, Len(region) - Len(FigureEnd))

NoImage(o) == NextImage(RegionContent(o.region), 1).start = 0

\* C11 as stated: a figure region without image directive is put into the
\* result as it was.
C11_NoImageUnchanged ==
    \A k \in 1..Len(regions) :
        NoImage(regions[k]) => regions[k].text = regions[k].region

\* C11, amended: a figure region without image directive is not kept as it
\* was. Its content, stripped of the whitespace around it, is wrapped anew:
\* under strategy 4 in \par\medskip\begin{center} ... \end{center}\medskip\par
\* without figure environment, under strategy 2 in \begin{figure} and
\* \end{figure} on lines of their own, otherwise the same with \centering
\* after \begin{figure}. Nothing is printed for it.
C11_NoImageRewrapped ==
    \A k \in 1..Len(regions) :
        NoImage(regions[k])
            => /\ regions[k].text
                    = Wrap(method, RegionContent(regions[k].region))
               /\ regions[k].lines = <<>>

C11_Witness ==
    /\ pc = "exited"
    /\ method = 4
    /\ Len(regions) = 2
    /\ NoImage(regions[2])
    /\ regions[2].region = "\\begin{figure} \\caption{c}\\end{figure}"
    /\ regions[2].text
         = "\\par\\medskip\\begin{center}\\caption{c}\\end{center}\\medskip\\par"
    /\ Contains(output.text, regions[2].text)

\* the image paths the search of a region can end with: the path of its
\* first image directive when a file is there, else that file's name in a
\* directory holding images, as seen from the base directory
ImagePathsIn(o, image, name) ==
    IF exists(o.files, os_path_join(base_path, image)) THEN {image}
    ELSE { relpath(os_path_join(d, name), base_path) :
             d \in { e \in get_image_folders(o.files, base_path) :
                       exists(o.files, os_path_join(e, name)) } }

ImagePathsOf(o, image) == ImagePathsIn(o, image, basename(image))

ImagePaths(o) ==
    IF NoImage(o) THEN {} ELSE ImagePathsOf(o, RegionImage(o.region))

\* the raster file derived from an image path
PngOf(image_path) == splitext(image_path)[1] \o ".png"

\* the image is no raster file and its raster file is not there yet
NeedsTool(o, image_path) ==
    /\ ~endswith(lower(image_path), ".png")
    /\ ~exists(o.files, os_path_join(base_path, PngOf(image_path)))

ToolFor(image_path) ==
    IF endswith(lower(image_path), ".eps") THEN "convert"
    ELSE IF endswith(lower(image_path), ".pdf") THEN "pdftoppm"
    ELSE ""

\* the line printed when the conversion of the image cannot be done, ""
\* when it can
ConversionError(image_path) ==
    IF ToolFor(image_path) = ""
    THEN "Error: Unsupported file format: " \o image_path
    ELSE IF tools[ToolFor(image_path)] = "missing"
    THEN "Error: Required conversion tools not found. Please install ImageMagick and poppler-utils."
    ELSE IF tools[ToolFor(image_path)] = "fail"
    THEN "Error: Failed to convert " \o image_path \o " to PNG"
    ELSE ""

\* the number of matches of figure_pattern in a text, from position j on
RECURSIVE FigureRegions(_, _)
FigureRegionsEnd(s, j, e) ==
    IF j = 0 \/ e = 0 THEN 0 ELSE 1 + FigureRegions(s, e + Len(FigureEnd))

FigureRegionsAt(s, j) ==
    FigureRegionsEnd(s, j, IF j = 0 THEN 0
                           ELSE Find(s, FigureEnd, j + Len(FigureBegin)))

FigureRegions(s, i) == FigureRegionsAt(s, Find(s, FigureBegin, i))

\* C12: in the state the Figure Canonicalizer leaves (regions does not
\* change after it), a figure region whose image needs a conversion that
\* cannot be done,
\* its format being unsupported, the tool exiting with an error or the tool
\* missing, is put into the result as it was and one line is printed for it;
\* every figure region of the text is processed, and the run goes on to
\* finalize and write its output with exit status 0.
C12_ConversionFailureKept ==
    /\ pc = "centered"
          => \A k \in 1..Len(regions) :
                 \A image_path \in ImagePaths(regions[k]) :
                     (NeedsTool(regions[k], image_path)
                      /\ ConversionError(image_path) # "")
                         => /\ regions[k].text = regions[k].region
                            /\ regions[k].lines
                                  = <<ConversionError(image_path)>>
    /\ Reached("centered")
          => Len(regions) = FigureRegions(AtStage("preprocessed"), 1)
    /\ Len(regions) > 0
          => /\ exit_status \in {-1, 0}
             /\ pc = "exited"
                   => (Reached("finalized") /\ output.written
                       /\ exit_status = 0)

\* a region whose conversion fails is followed by one that is rewritten
C12_Witness ==
    /\ pc = "exited"
    /\ Len(regions) = 2
    /\ \E image_path \in ImagePaths(regions[1]) :
          /\ NeedsTool(regions[1], image_path)
          /\ ToolFor(image_path) = "convert"
          /\ tools.convert = "fail"
    /\ regions[1].text = regions[1].region
    /\ Len(regions[1].lines) = 1
    /\ regions[2].text # regions[2].region
    /\ Len(calls) = 2
    /\ output.written

\* the paths of the image directives of a text, from position i on
RECURSIVE DirectivePaths(_, _)
DirectivePathsAt(t, m) ==
    IF m.start = 0 THEN {}
    ELSE {m.path} \cup DirectivePaths(t, m.end + 1)

DirectivePaths(t, i) == DirectivePathsAt(t, NextImage(t, i))

\* the canonicalizer rewrote the region: it printed no line for it
Rewrote(o) == o.lines = <<>>

\* C15: once the Figure Canonicalizer has run, every image directive of
\* a region it rewrote names a .png file that is there when the name is
\* resolved against the base directory, a tool that exits with status 0
\* having written its target.
C15_RewrittenRaster ==
    \A k \in 1..Len(regions) :
        Rewrote(regions[k])
            => \A p \in DirectivePaths(regions[k].text, 1) :
                   /\ endswith(lower(p), ".png")
                   /\ exists(fs, os_path_join(base_path, p))

\* a region is rewritten to name a raster file a tool wrote for it
C15_Witness ==
    /\ pc = "exited"
    /\ \E k \in 1..Len(regions) :
          /\ Rewrote(regions[k])
          /\ \E p \in DirectivePaths(regions[k].text, 1) :
                /\ ~exists(regions[k].files, os_path_join(base_path, p))
                /\ exists(fs, os_path_join(base_path, p))
          /\ \E q \in DirectivePaths(regions[k].region, 1) :
                ~endswith(lower(q), ".png")

\* the file a tool run is to write
TargetOf(call) ==
    IF call.tool = "pdftoppm" THEN call.dst \o ".png" ELSE call.dst

\* the tool fits the format of the file it is given
ToolFits(call) ==
    /\ call.tool \in {"convert", "pdftoppm"}
    /\ call.tool = "convert" => endswith(lower(call.src), ".eps")
    /\ call.tool = "pdftoppm" => endswith(lower(call.src), ".pdf")

\* the raster files of all the images the search of the region can end
\* with, paths, are there before the region is processed
TargetsThere(o, paths) ==
    /\ paths # {}
    /\ \A image_path \in paths :
          /\ ~endswith(lower(image_path), ".png")
          /\ exists(o.files, os_path_join(base_path, PngOf(image_path)))

\* the tool run is for one of the images the search can end with, no .png
\* file and without its .png file so far
ToolNeeded(o, paths, call) ==
    /\ ToolFits(call)
    /\ ~endswith(lower(call.src), ".png")
    /\ ~exists(o.files, TargetOf(call))
    /\ \E image_path \in paths :
          /\ NeedsTool(o, image_path)
          /\ TargetOf(call) = os_path_join(base_path, PngOf(image_path))

ToolsOnlyWhenNeeded(o, paths) ==
    /\ Len(o.calls) <= 1
    /\ \A n \in 1..Len(o.calls) : ToolNeeded(o, paths, o.calls[n])
    /\ TargetsThere(o, paths)
          => /\ o.calls = <<>>
             /\ Rewrote(o)
             /\ \E image_path \in paths :
                   DirectivePaths(o.text, 1) = {PngOf(image_path)}

\* C16: in the state the Figure Canonicalizer leaves (regions does not
\* change after it), it has run at most one tool for a region, and
\* only for an image that is no .png file and whose .png file is not there
\* yet: convert for .eps files only, pdftoppm for .pdf files only.  When
\* the .png file is there no tool is run and the region is rewritten to
\* name it.
C16_ToolOnlyWhenNeeded ==
    pc = "centered"
        => \A k \in 1..Len(regions) :
               ToolsOnlyWhenNeeded(regions[k], ImagePaths(regions[k]))

\* a tool is run for the first region, and the second, with the same
\* image, is rewritten to name the file the tool wrote without a tool run
C16_Witness ==
    /\ pc = "exited"
    /\ Len(regions) = 2
    /\ Len(regions[1].calls) = 1
    /\ TargetsThere(regions[2], ImagePaths(regions[2]))
    /\ regions[2].calls = <<>>
    /\ regions[2].text # regions[2].region

\* the text holds a match of the inclusion pattern: "\input{", then a
\* character other than "}", then somewhere a "}"
HasDirective(t) ==
    \E i \in 1..Len(t) :
        /\ StartsAt(t, InputOpen, i)
        /\ ~StartsAt(t, "}", i + Len(InputOpen))
        /\ Contains(From(t, i + Len(InputOpen)), "}")

\* C8: on a root text without inclusion directive the Inclusion Expander
\* returns the text as it is and opens no file: the root file stays the only
\* one read.
C8_NoDirectiveUnchanged ==
    (pc # "start" /\ ~HasDirective(fs[RootPath]))
        => /\ reads = <<RootPath>>
           /\ exit_status # 1
           /\ Len(hist) >= 1
           /\ hist[1] = Stage("expanded", fs[RootPath])

C8_Witness ==
    /\ pc = "expanded"
    /\ ~HasDirective(fs[RootPath])
    /\ Contains(fs[RootPath], InputOpen)
    /\ Contains(fs[RootPath], EndDocument) \/ Contains(fs[RootPath], "t")

\* C9: once the expansion has reached, at whatever depth, a directive whose
\* candidate file does not exist, nothing more is opened and the run has
\* ended: exit status 1, one diagnostic naming that path, no stage
\* completed, no tool run, nothing written.
C9_MissingInclusionFatal ==
    \A k \in 2..Len(reads) :
        ~exists(fs, reads[k])
            => /\ k = Len(reads)
               /\ pc = "exited"
               /\ exit_status = 1
               /\ diag = <<"Error: Unable to locate input file: " \o reads[k]>>
               /\ hist = <<>>
               /\ content = ""
               /\ calls = <<>>
               /\ regions = <<>>
               /\ output = NoFile

C9_Witness ==
    /\ Len(reads) = 4
    /\ ~exists(fs, reads[4])
    /\ dirname(reads[4]) # base_path

(***************************************************************************)
(* processor/pandoc-vanvliet.py: the pandoc filter.                        *)
(*                                                                         *)
(* The document is the sequence of its nodes in the order the walk visits  *)
(* them; run_filters walks the whole document once for each filter, in     *)
(* the order of the list in main.                                          *)
(***************************************************************************)

\* caption is the list of the texts of the Str nodes of the caption
Figure(identifier, caption) ==
    [kind |-> "Figure", identifier |-> identifier, caption |-> caption]

\* a Table inside a Div; identifier is elem.parent.identifier
Table(identifier, caption) ==
    [kind |-> "Table", identifier |-> identifier, caption |-> caption]

RawInline(text) == [kind |-> "RawInline", text |-> text]

Str(text) == [kind |-> "Str", text |-> text]

\* Span(Str(text))
Span(text) == [kind |-> "Span", text |-> text]

\* a Span with the attributes acronym-label and acronym-form
AcronymSpan(label, form) == [kind |-> "Span", label |-> label, form |-> form]

\* a Cite whose first Str holds text
Cite(text) == [kind |-> "Cite", text |-> text]

\* width: the Image has a width attribute
Image(url, width) == [kind |-> "Image", url |-> url, width |-> width]

Div(identifier) == [kind |-> "Div", identifier |-> identifier]

Header(text, identifier) ==
    [kind |-> "Header", text |-> text, identifier |-> identifier]

\* U+00A0 and U+2013, each written as one ASCII character
nbsp == "~"

endash == "-"

\* the directory the filter runs in
getcwd == "/p"

\* what one call of a filter did: the node it was given and the text it
\* computed for it
Step(name, elem, text) == [stage |-> name, elem |-> elem, text |-> text]

\* The walk goes on after the filter has put the nodes of new in the place
\* of doc[pos]; after the last node of the last filter the document is
\* written and the process ends.
Walked(new, len) ==
    /\ doc' = SubSeq(doc, 1, pos - 1) \o new \o SubSeq(doc, pos + 1, Len(doc))
    /\ IF pos + Len(new) <= len
       THEN /\ pos' = pos + Len(new)
            /\ UNCHANGED <<pc, pass, exit_status, output>>
       ELSE IF pass < 7
       THEN /\ pos' = 1
            /\ pass' = pass + 1
            /\ UNCHANGED <<pc, exit_status, output>>
       ELSE /\ pc' = "exited"
            /\ exit_status' = 0
            /\ output' = [written |-> TRUE, doc |-> doc']
            /\ UNCHANGED <<pass, pos>>

Visit(new) == Walked(new, Len(doc) - 1 + Len(new))

\* A variant of AcronymValue without the memory of earlier uses.
AcronymValueFresh(label, form, value, used) ==
    IF Contains(form, "full") \/ Contains(form, "short")
    THEN IF Contains(form, "singular") THEN value \o " (" \o label \o ")"
         ELSE value \o "s (" \o label \o "s)"
    ELSE IF Contains(form, "abbrv")
    THEN IF Contains(form, "singular") THEN label ELSE label \o "s"
    ELSE value

\* resolve_acronyms, lines 66-89: value is acronyms[label], used is
\* label in refcounts
AcronymValue(label, form, value, used) ==
    IF used /\ Contains(form, "short")
    THEN IF Contains(form, "singular") THEN label ELSE label \o "s"
    ELSE IF Contains(form, "full") \/ Contains(form, "short")
    THEN IF Contains(form, "singular") THEN value \o " (" \o label \o ")"
         ELSE value \o "s (" \o label \o "s)"
    ELSE IF Contains(form, "abbrv")
    THEN IF Contains(form, "singular") THEN label ELSE label \o "s"
    ELSE value

\* A variant of Remembered that marks the label whatever the form.
RememberedAlways(label, form, used) == used \cup {label}

\* lines 77-78
Remembered(label, form, used) ==
    IF Contains(form, "short") THEN used \cup {label} ELSE used

Resolved_acronym(elem, value) ==
    /\ refcounts' = Remembered(elem.label, elem.form, refcounts)
    /\ hist' = Append(hist, Step("resolve_acronyms", elem, value))
    /\ Visit(<<Span(value)>>)

\* resolve_acronyms, lines 60-91
ResolveAcronyms ==
    /\ pc = "filter"
    /\ pass = 1
    /\ IF /\ doc[pos].kind = "Span"
          /\ "label" \in DOMAIN doc[pos]
          /\ doc[pos].label \in DOMAIN acronyms
       THEN Resolved_acronym(
                doc[pos],
                AcronymValue(doc[pos].label, doc[pos].form,
                             acronyms[doc[pos].label],
                             doc[pos].label \in refcounts))
       ELSE /\ Visit(<<doc[pos]>>)
            /\ UNCHANGED <<refcounts, hist>>
    /\ UNCHANGED <<content, fs, method, tools, diag, reads, calls, regions,
                   acronyms, figures, tables>>

\* add_space_to_citation, lines 94-98
AddSpaceToCitation ==
    /\ pc = "filter"
    /\ pass = 2
    /\ IF doc[pos].kind = "Cite" /\ startswith(doc[pos].text, "(")
       THEN Visit(<<Cite(nbsp \o doc[pos].text)>>)
       ELSE Visit(<<doc[pos]>>)
    /\ UNCHANGED <<content, fs, method, tools, diag, reads, calls, hist,
                   regions, acronyms, refcounts, figures, tables>>

\* dict[key] = value
Assigned(dict, key, value) ==
    [k \in DOMAIN dict \cup {key} |-> IF k = key THEN value ELSE dict[k]]

\* A variant of FloatNum that counts from zero.
FloatNumFromZero(name, dict) ==
    name \o " " \o ToString(Cardinality(DOMAIN dict))

\* f'Figure {len(figures) + 1}', f'Table {len(tables) + 1}'
FloatNum(name, dict) ==
    name \o " " \o ToString(Cardinality(DOMAIN dict) + 1)

\* lines 105-108 and 112-115: the first Str of the caption gets the number
Captioned(elem, num) ==
    IF Len(elem.caption) = 0 THEN elem
    ELSE [elem EXCEPT !.caption[1] = num \o ": " \o @]

Numbered(elem, num) ==
    /\ hist' = Append(hist, Step("number_float", elem, num))
    /\ Visit(<<Captioned(elem, num)>>)

\* number_float, lines 101-115
NumberFloat ==
    /\ pc = "filter"
    /\ pass = 3
    /\ IF doc[pos].kind = "Figure"
       THEN /\ figures' = Assigned(figures, doc[pos].identifier,
                                   FloatNum("Figure", figures))
            /\ Numbered(doc[pos], FloatNum("Figure", figures))
            /\ UNCHANGED tables
       ELSE IF doc[pos].kind = "Table"
       THEN /\ tables' = Assigned(tables, doc[pos].identifier,
                                  FloatNum("Table", tables))
            /\ Numbered(doc[pos], FloatNum("Table", tables))
            /\ UNCHANGED figures
       ELSE /\ Visit(<<doc[pos]>>)
            /\ UNCHANGED <<hist, figures, tables>>
    /\ UNCHANGED <<content, fs, method, tools, diag, reads, calls, regions,
                   acronyms, refcounts>>

AutorefOpen == "\\autoref{"

\* the first line of a text: "." matches no line break
FirstLine(s, nl) == IF nl = 0 THEN s ELSE Sub(s, 1, nl - 1)

\* autoref_pattern.match on a line whose last "}" is at close:
\* [matched, float_type, name], name being group 2
AutorefClose(line, close) ==
    IF /\ startswith(line, AutorefOpen)
       /\ StartsAt(line, ":", Len(AutorefOpen) + 4)
       /\ close > Len(AutorefOpen) + 4
    THEN [matched |-> TRUE,
          float_type |-> Sub(line, Len(AutorefOpen) + 1, Len(AutorefOpen) + 3),
          name |-> Sub(line, Len(AutorefOpen) + 5, close - 1)]
    ELSE [matched |-> FALSE, float_type |-> "", name |-> ""]

AutorefLine(line) == AutorefClose(line, RFind(line, "}"))

\* autoref_pattern.match(text), line 118
AutorefMatch(text) == AutorefLine(FirstLine(text, Find(text, "\n", 1)))

\* A variant of Autoref that puts a mark in the place of a placeholder it
\* cannot resolve.
AutorefOrMark(elem, matches, identifier) ==
    IF matches.matched /\ matches.float_type = "fig"
       /\ identifier \in DOMAIN figures
    THEN <<Str(figures[identifier])>>
    ELSE IF matches.matched /\ matches.float_type = "tab"
            /\ identifier \in DOMAIN tables
    THEN <<Str(tables[identifier])>>
    ELSE IF matches.matched THEN <<Str("??")>>
    ELSE <<elem>>

\* lines 122-128
Autoref(elem, matches, identifier) ==
    IF matches.matched /\ matches.float_type = "fig"
       /\ identifier \in DOMAIN figures
    THEN <<Str(figures[identifier])>>
    ELSE IF matches.matched /\ matches.float_type = "tab"
            /\ identifier \in DOMAIN tables
    THEN <<Str(tables[identifier])>>
    ELSE <<elem>>

Referenced(elem, new) ==
    /\ hist' = Append(hist, Step("resolve_autoref", elem, new[1].text))
    /\ Visit(new)

AutorefOf(elem, matches) ==
    Referenced(elem,
               Autoref(elem, matches,
                       matches.float_type \o ":" \o matches.name))

\* resolve_autoref, lines 119-128
ResolveAutoref ==
    /\ pc = "filter"
    /\ pass = 4
    /\ IF doc[pos].kind = "RawInline"
       THEN AutorefOf(doc[pos], AutorefMatch(doc[pos].text))
       ELSE /\ Visit(<<doc[pos]>>)
            /\ UNCHANGED hist
    /\ UNCHANGED <<content, fs, method, tools, diag, reads, calls, regions,
                   acronyms, refcounts, figures, tables>>

\* lines 141-142
ImgPath(url) ==
    IF startswith(url, "paper" \o os_sep)
    THEN From(url, Len("paper" \o os_sep) + 1)
    ELSE url

\* lines 157-158
WithoutWidth(elem) == [elem EXCEPT !.width = FALSE]

\* os.path.exists(path) in the directory the filter runs in
ExistsHere(files, path) == exists(files, os_path_join(getcwd, path))

\* the file pdftoppm -png -singlefile writes for the output root dst
Rendered(files, dst) ==
    [f \in DOMAIN files \cup {normpath(os_path_join(getcwd, dst \o ".png"))}
        |-> IF f \in DOMAIN files THEN files[f] ELSE "image"]

Rasterized(elem, new, printed, files, cs) ==
    /\ diag' = printed
    /\ fs' = files
    /\ calls' = cs
    /\ hist' = Append(hist, Step("rasterize_pdf_images", elem, new.url))
    /\ Visit(<<new>>)

\* an exception leaves run_filters: main, lines 183-185
Failed(printed) ==
    /\ diag' = Append(printed, "Error in pandoc-vanvliet.py")
    /\ pc' = "exited"
    /\ exit_status' = 1
    /\ UNCHANGED <<doc, pass, pos, output, fs, calls, hist>>

\* lines 145-154: pdftoppm is run. It exits with status 0 and writes its
\* file when it works and its source exists, raises CalledProcessError when
\* it exits with another status and FileNotFoundError when it is not there.
RunPdftoppm(elem, printed, img_path, url_png, call) ==
    IF tools.pdftoppm = "missing" THEN Failed(printed)
    ELSE IF tools.pdftoppm = "ok" /\ ExistsHere(fs, img_path)
    THEN Rasterized(elem, WithoutWidth([elem EXCEPT !.url = url_png]),
                    printed, Rendered(fs, call.dst), Append(calls, call))
    ELSE Rasterized(elem, elem,
                    Append(printed, "Error: Failed to convert " \o img_path
                                    \o " to PNG"),
                    fs, Append(calls, call))

\* lines 144-155
RasterizeTo(elem, printed, img_path, url_png) ==
    IF ExistsHere(fs, url_png)
    THEN Rasterized(elem, WithoutWidth([elem EXCEPT !.url = url_png]),
                    printed, fs, calls)
    ELSE RunPdftoppm(elem, printed, img_path, url_png,
                     [tool |-> "pdftoppm", src |-> img_path,
                      dst |-> Sub(img_path, 1, Len(img_path) - 4)])

\* lines 137-143
Rasterize(elem, printed, img_path) ==
    IF endswith(elem.url, ".pdf")
    THEN RasterizeTo(elem, printed, img_path,
                     ReplaceAll(img_path, ".pdf", ".png"))
    ELSE Rasterized(elem, WithoutWidth(elem), printed, fs, calls)

\* rasterize_pdf_images, lines 134-160
RasterizePdfImages ==
    /\ pc = "filter"
    /\ pass = 5
    /\ IF doc[pos].kind = "Image"
       THEN Rasterize(doc[pos], Append(diag, "Rasterizing " \o doc[pos].url),
                      ImgPath(doc[pos].url))
       ELSE /\ Visit(<<doc[pos]>>)
            /\ UNCHANGED <<fs, diag, calls, hist>>
    /\ UNCHANGED <<content, method, tools, reads, regions, acronyms,
                   refcounts, figures, tables>>

\* si_range_pattern.match(line), line 162: the positions of the U+00A0 and
\* of the U+2013 the groups meet at, each group taking all it can;
\* <<0, 0>> when the pattern does not match
SiRangeAt(line, p) ==
    <<p, Last({ q \in Occurrences(line, endash, p + 2) : q < Len(line) })>>

SiRange(line) ==
    SiRangeAt(line,
              Last({ p \in Occurrences(line, nbsp, 2) :
                     \E q \in Occurrences(line, endash, p + 2) :
                         q < Len(line) }))

\* lines 165-167
FixedSiRange(line, m) ==
    IF m[1] = 0 THEN <<>>
    ELSE <<Str(Sub(line, 1, m[1] - 1) \o endash \o From(line, m[2] + 1))>>

SiRangeOf(elem, line) ==
    IF SiRange(line)[1] = 0 THEN <<elem>> ELSE FixedSiRange(line, SiRange(line))

\* fix_si_range, lines 163-168
FixSiRange ==
    /\ pc = "filter"
    /\ pass = 6
    /\ IF doc[pos].kind = "Str"
       THEN Visit(SiRangeOf(doc[pos],
                            FirstLine(doc[pos].text,
                                      Find(doc[pos].text, "\n", 1))))
       ELSE Visit(<<doc[pos]>>)
    /\ UNCHANGED <<content, fs, method, tools, diag, reads, calls, hist,
                   regions, acronyms, refcounts, figures, tables>>

\* add_references_section_heading, lines 130-132
AddReferencesSectionHeading ==
    /\ pc = "filter"
    /\ pass = 7
    /\ IF doc[pos].kind = "Div" /\ doc[pos].identifier = "refs"
       THEN Visit(<<Header("References", "references"), doc[pos]>>)
       ELSE Visit(<<doc[pos]>>)
    /\ UNCHANGED <<content, fs, method, tools, diag, reads, calls, hist,
                   regions, acronyms, refcounts, figures, tables>>

(***************************************************************************)
(* The inputs of the filter runs.                                          *)
(***************************************************************************)

\* Most nodes a document of each family is made of.
MaxFloats == 3

MaxSpans == 3

MaxOthers == 2

\* every sequence of at least one and at most n of the nodes
RECURSIVE Docs(_, _)
Docs(nodes, n) ==
    IF n = 0 THEN {}
    ELSE { <<e>> : e \in nodes }
         \cup { Append(d, e) : d \in Docs(nodes, n - 1), e \in nodes }

\* the table load_acronyms reads from acronyms.tex
AcronymTable ==
    ("CPU" :> "Central Processing Unit") @@ ("GPU" :> "Graphics Processing Unit")

FloatNodes ==
    {Figure("fig:a", <<"c">>), Figure("fig:b", <<"c", "d">>),
     Figure("", <<>>), Figure("f2", <<"c">>),
     Table("tab:a", <<"c">>),
     RawInline("\\autoref{fig:a}"), RawInline("\\autoref{fig:f2}"),
     RawInline("\\autoref{tab:a}"), RawInline("\\autoref{sec:a}")}

SpanNodes ==
    {AcronymSpan("CPU", "singular+short"), AcronymSpan("CPU", "plural+short"),
     AcronymSpan("CPU", "singular+full"), AcronymSpan("CPU", "singular+abbrv"),
     AcronymSpan("CPU", "singular+long"), AcronymSpan("GPU", "singular+short"),
     AcronymSpan("NA", "singular+short")}

OtherNodes ==
    {Image("img/g.pdf", TRUE), Image("paper/img/g.pdf", FALSE),
     Image("h.png", TRUE), Image("no.pdf", TRUE),
     Cite("(A)"), Cite("A"),
     Str("1" \o nbsp \o "m" \o endash \o "2" \o nbsp \o "m"), Str("x"),
     Div("refs"), Div("x")}

FilterRuns ==
    { [doc |-> d, tools |-> AllTools("ok")] :
          d \in Docs(FloatNodes, MaxFloats) \cup Docs(SpanNodes, MaxSpans) }
    \cup { [doc |-> d, tools |-> AllTools(o)] :
              d \in Docs(OtherNodes, MaxOthers), o \in {"ok", "fail", "missing"} }

(***************************************************************************)
(* processor/pandoc-vanvliet.py: main, one action per filter of the list.  *)
(***************************************************************************)

\* the state in which main calls run_filters
InitFilter ==
    /\ \E run \in FilterRuns :
        /\ doc = run.doc
        /\ tools = run.tools
    /\ fs = FileSystem("", ImageFiles)
    /\ acronyms = AcronymTable
    /\ refcounts = {}
    /\ figures = <<>>
    /\ tables = <<>>
    /\ pc = "filter"
    /\ pass = 1
    /\ pos = 1
    /\ content = ""
    /\ method = 3
    /\ diag = <<>>
    /\ reads = <<>>
    /\ calls = <<>>
    /\ exit_status = -1
    /\ output = NoFile
    /\ hist = <<>>
    /\ regions = <<>>

NextFilter ==
    \/ ResolveAcronyms
    \/ AddSpaceToCitation
    \/ NumberFloat
    \/ ResolveAutoref
    \/ RasterizePdfImages
    \/ FixSiRange
    \/ AddReferencesSectionHeading

SpecFilter == InitFilter /\ [][NextFilter]_vars

(***************************************************************************)
(* Properties of the filter run (SpecFilter).                              *)
(***************************************************************************)

\* the calls of number_float on Figure nodes so far, in order
FigureSteps ==
    SelectSeq(hist, LAMBDA h : h.stage = "number_float"
                               /\ h.elem.kind = "Figure")

TableSteps ==
    SelectSeq(hist, LAMBDA h : h.stage = "number_float"
                               /\ h.elem.kind = "Table")

AutorefSteps == SelectSeq(hist, LAMBDA h : h.stage = "resolve_autoref")

AcronymSteps == SelectSeq(hist, LAMBDA h : h.stage = "resolve_acronyms")

\* the identifier of the k-th figure numbered
FigureId(k) == FigureSteps[k].elem.identifier

DistinctFigures ==
    \A i, j \in 1..Len(FigureSteps) : i # j => FigureId(i) # FigureId(j)

\* C3 as stated: with distinct figure identifiers, the placeholder of the
\* k-th figure is replaced by the text "k".
C3_ResolvesToNumber ==
    DistinctFigures
        => \A n \in 1..Len(AutorefSteps), k \in 1..Len(FigureSteps) :
               AutorefSteps[n].elem.text
                       \in {"\\autoref{fig:" \o FigureId(k) \o "}",
                            "\\autoref{" \o FigureId(k) \o "}"}
                   => AutorefSteps[n].text = ToString(k)

\* C3, amended: with distinct figure identifiers the k-th figure is assigned
\* the text "Figure k", kept under its identifier; a placeholder
\* \autoref{fig:x} is replaced by that text when the figure's identifier is
\* "fig:x", and is left as it is when no figure has the identifier "fig:x",
\* as for a figure whose identifier is "x".
C3_NumberedAndResolved ==
    DistinctFigures
        => /\ \A k \in 1..Len(FigureSteps) :
                /\ FigureSteps[k].text = "Figure " \o ToString(k)
                /\ figures[FigureId(k)] = "Figure " \o ToString(k)
           /\ \A n \in 1..Len(AutorefSteps), k \in 1..Len(FigureSteps) :
                /\ (/\ startswith(FigureId(k), "fig:")
                    /\ AutorefSteps[n].elem.text
                         = "\\autoref{" \o FigureId(k) \o "}")
                       => AutorefSteps[n].text = "Figure " \o ToString(k)
                /\ (/\ AutorefSteps[n].elem.text
                         = "\\autoref{fig:" \o FigureId(k) \o "}"
                    /\ ("fig:" \o FigureId(k)) \notin DOMAIN figures)
                       => AutorefSteps[n].text = AutorefSteps[n].elem.text

C3_Witness ==
    /\ pc = "exited"
    /\ DistinctFigures
    /\ Len(FigureSteps) = 2
    /\ FigureId(2) = "fig:a"
    /\ Len(AutorefSteps) = 1
    /\ AutorefSteps[1].elem.text = "\\autoref{fig:a}"
    /\ output.doc[3] = Str("Figure 2")

\* an earlier call was a short-form request for the label of the k-th
ShortBefore(k) ==
    \E j \in 1..(k - 1) :
        /\ AcronymSteps[j].elem.label = AcronymSteps[k].elem.label
        /\ Contains(AcronymSteps[j].elem.form, "short")

\* an earlier call was a short-form singular request for that label
SingularShortBefore(k) ==
    \E j \in 1..(k - 1) :
        /\ AcronymSteps[j].elem.label = AcronymSteps[k].elem.label
        /\ Contains(AcronymSteps[j].elem.form, "short")
        /\ Contains(AcronymSteps[j].elem.form, "singular")

SingularShort(k) ==
    /\ Contains(AcronymSteps[k].elem.form, "short")
    /\ Contains(AcronymSteps[k].elem.form, "singular")

\* "E (L)" for the label L of the k-th call
ParentheticalForm(k) ==
    acronyms[AcronymSteps[k].elem.label] \o " ("
        \o AcronymSteps[k].elem.label \o ")"

\* C4 as stated: the first short-form singular request for a defined label
\* renders "E (L)", every later one renders "L".
C4_FirstSingularShort ==
    \A k \in 1..Len(AcronymSteps) :
        SingularShort(k)
            => AcronymSteps[k].text
                 = IF SingularShortBefore(k) THEN AcronymSteps[k].elem.label
                   ELSE ParentheticalForm(k)

\* C4, amended: a short-form singular request for a defined label renders
\* "E (L)" when no short-form request for that label, singular or plural,
\* came before it, and the bare label "L" otherwise.
C4_FirstShortUse ==
    \A k \in 1..Len(AcronymSteps) :
        SingularShort(k)
            => AcronymSteps[k].text
                 = IF ShortBefore(k) THEN AcronymSteps[k].elem.label
                   ELSE ParentheticalForm(k)

C4_Witness ==
    /\ pc = "exited"
    /\ Len(AcronymSteps) = 3
    /\ \A k \in 1..3 : SingularShort(k)
    /\ AcronymSteps[1].elem.label = "CPU"
    /\ AcronymSteps[2].elem.label = "GPU"
    /\ AcronymSteps[3].elem.label = "CPU"
    /\ output.doc = <<Span("Central Processing Unit (CPU)"),
                      Span("Graphics Processing Unit (GPU)"), Span("CPU")>>

\* C10: in one numbering pass the k-th Figure visited is assigned number k
\* and the k-th Table visited is assigned number k, whatever their
\* identifiers.
C10_DenseNumbers ==
    /\ \A k \in 1..Len(FigureSteps) :
          FigureSteps[k].text = "Figure " \o ToString(k)
    /\ \A k \in 1..Len(TableSteps) :
          TableSteps[k].text = "Table " \o ToString(k)

(***************************************************************************)
(* pandoc-vanvliet-preprocess.py: the rule list `patterns` and the stages  *)
(* of the module body from the read of the root file to the Table          *)
(* Linearizer.                                                             *)
(***************************************************************************)

\* a pattern without operators
Literal(pat, rep) == [kind |-> "literal", pat |-> pat, rep |-> rep]

\* open([^}]+)close, replaced by pre\1post
Capture(open, close, pre, post) ==
    [kind |-> "capture", open |-> open, close |-> close, pre |-> pre,
     post |-> post]

\* head(opt)?tail
Optional(head, opt, tail, rep) ==
    [kind |-> "optional", head |-> head, opt |-> opt, tail |-> tail,
     rep |-> rep]

\* head(\[.*?\])?{.*?}
Braced(head, rep) == [kind |-> "braced", head |-> head, rep |-> rep]

\* head.*?} for a head ending in "{", replaced by nothing
Removed(head) == [kind |-> "removed", head |-> head]

\* head(\d+)}{.*?}{(.*?)}, replaced by \2
Multi(head) == [kind |-> "multi", head |-> head]

patterns ==
    <<Literal("\\begin{figure*}", "\\begin{figure}"),
      Literal("\\end{figure*}", "\\end{figure}"),
      Capture("\\tcov{\\mat{", "}}", "$\\mathbf{\\Sigma}_\\mathbf{", "}$"),
      Capture("\\tcov{\\emat{", "}}",
              "$\\mathbf{\\Sigma}_{\\widehat{\\mathbf{", "}}}$"),
      Capture("\\tcov{\\text{", "}}", "$\\mathbf{\\Sigma}_\\text{", "}$"),
      Capture("\\icov{\\emat{", "}}",
              "\\mathbf{\\Sigma}^{-1}_{\\widehat{\\mathbf{", "}}}"),
      Capture("\\ticov{\\emat{", "}}",
              "$\\mathbf{\\Sigma}^{-1}_{\\widehat{\\mathbf{", "}}}$"),
      Capture("\\mat{", "}", "\\mathbf{", "}"),
      Capture("\\vec{", "}", "\\mathbf{", "}"),
      Capture("\\tmat{", "}", "$\\mathbf{", "}$"),
      Capture("\\tvec{", "}", "$\\mathbf{", "}$"),
      Capture("\\emat{", "}", "\\widehat{\\mathbf{", "}}"),
      Capture("\\evec{", "}", "\\widehat{\\mathbf{", "}}"),
      Capture("\\temat{", "}", "$\\widehat{\\mathbf{", "}}$"),
      Capture("\\tevec{", "}", "$\\widehat{\\mathbf{", "}}$"),
      Literal("\\trans", "^\\mathsf{T}"),
      Literal("\\hermconj", "^\\mathsf{H}"),
      Capture("\\cov{", "}", "\\mathbf{\\Sigma}_\\mathbf{", "}"),
      Capture("\\icov{", "}", "\\mathbf{\\Sigma}^{-1}_\\mathbf{", "}"),
      Capture("\\tcov{", "}", "$\\mathbf{\\Sigma}_\\mathbf{", "}$"),
      Capture("\\ticov{", "}", "$\\mathbf{\\Sigma}^{-1}_\\mathbf{", "}$"),
      Literal("\\vspace{2ex}", ""),
      Optional("\\begin{table", "*", "}", "\\begin{table}"),
      Optional("\\end{table", "*", "}", "\\end{table}"),
      Braced("\\begin{tabular}", "\\begin{tabular}"),
      Literal("\\end{tabular}", "\\end{tabular}"),
      Literal("\\hline", ""),
      Removed("\\cline{"),
      Multi("\\multicolumn{"),
      Multi("\\multirow{")>>

\* pat.sub(rep, s) for a Capture rule r, from position i on: j is the next
\* r.open and e the first "}" after it
RECURSIVE CaptureFrom(_, _, _)
CaptureEnd(s, r, i, j, e) ==
    IF e > j + Len(r.open) /\ StartsAt(s, r.close, e)
    THEN Sub(s, i, j - 1) \o r.pre \o Sub(s, j + Len(r.open), e - 1)
         \o r.post \o CaptureFrom(s, r, e + Len(r.close))
    ELSE Sub(s, i, j) \o CaptureFrom(s, r, j + 1)

CaptureAt(s, r, i, j) ==
    IF j = 0 THEN From(s, i)
    ELSE CaptureEnd(s, r, i, j, Find(s, "}", j + Len(r.open)))

CaptureFrom(s, r, i) == CaptureAt(s, r, i, Find(s, r.open, i))

\* pat.sub(rep, s) for an Optional rule r, from position i on
RECURSIVE OptionalFrom(_, _, _)
OptionalAt(s, r, i, j) ==
    IF j = 0 THEN From(s, i)
    ELSE IF StartsAt(s, r.opt \o r.tail, j + Len(r.head))
    THEN Sub(s, i, j - 1) \o r.rep
         \o OptionalFrom(s, r, j + Len(r.head \o r.opt \o r.tail))
    ELSE IF StartsAt(s, r.tail, j + Len(r.head))
    THEN Sub(s, i, j - 1) \o r.rep
         \o OptionalFrom(s, r, j + Len(r.head \o r.tail))
    ELSE Sub(s, i, j) \o OptionalFrom(s, r, j + 1)

OptionalFrom(s, r, i) == OptionalAt(s, r, i, Find(s, r.head, i))

\* pat.sub(rep, s) for a Braced rule r, from position i on
RECURSIVE ReplaceBraced(_, _, _)
ReplaceBracedAt(s, r, i, m) ==
    IF m.start = 0 THEN From(s, i)
    ELSE Sub(s, i, m.start - 1) \o r.rep \o ReplaceBraced(s, r, m.end + 1)

ReplaceBraced(s, r, i) == ReplaceBracedAt(s, r, i, NextBraced(s, r.head, i))

Digits == {"0", "1", "2", "3", "4", "5", "6", "7", "8", "9"}

\* the first position from k on that holds no digit
RECURSIVE DigitsEnd(_, _)
DigitsEnd(s, k) ==
    IF k <= Len(s) /\ Sub(s, k, k) \in Digits THEN DigitsEnd(s, k + 1) ELSE k

\* pat.sub(r'\2', s) for a Multi rule, from position i on: j is the next
\* head, d the "}" after its digits, m the "}{" before group 2 and c the
\* "}" after group 2, all on the line that ends at eol
RECURSIVE MultiFrom(_, _, _)
MultiClose(s, head, i, j, eol, m, c) ==
    IF c # 0 /\ c < eol
    THEN Sub(s, i, j - 1) \o Sub(s, m + 2, c - 1) \o MultiFrom(s, head, c + 1)
    ELSE Sub(s, i, j) \o MultiFrom(s, head, j + 1)

MultiMid(s, head, i, j, eol, m) ==
    IF m # 0 /\ m < eol
    THEN MultiClose(s, head, i, j, eol, m, Find(s, "}", m + 2))
    ELSE Sub(s, i, j) \o MultiFrom(s, head, j + 1)

MultiDigits(s, head, i, j, d, eol) ==
    IF d > j + Len(head) /\ StartsAt(s, "}{", d)
    THEN MultiMid(s, head, i, j, eol, Find(s, "}{", d + 2))
    ELSE Sub(s, i, j) \o MultiFrom(s, head, j + 1)

MultiAt(s, head, i, j) ==
    IF j = 0 THEN From(s, i)
    ELSE MultiDigits(s, head, i, j, DigitsEnd(s, j + Len(head)),
                     EndOfLine(s, Find(s, "\n", j + Len(head))))

MultiFrom(s, head, i) == MultiAt(s, head, i, Find(s, head, i))

\* pat.sub(rep, content) for one rule of the list
Sub_rule(r, s) ==
    CASE r.kind = "literal" -> ReplaceAll(s, r.pat, r.rep)
      [] r.kind = "capture" -> CaptureFrom(s, r, 1)
      [] r.kind = "optional" -> OptionalFrom(s, r, 1)
      [] r.kind = "braced" -> ReplaceBraced(s, r, 1)
      [] r.kind = "removed" -> RemoveBraced(s, r.head, 1)
      [] r.kind = "multi" -> MultiFrom(s, r.head, 1)

\* A variant of the loop that goes through the list from its last rule to
\* its first.
RECURSIVE ApplyBackwards(_, _, _)
BackwardsNext(rules, k, t) ==
    IF Len(t) >= 0 THEN ApplyBackwards(rules, k + 1, t) ELSE t

ApplyBackwards(rules, k, s) ==
    IF k > Len(rules) THEN s
    ELSE BackwardsNext(rules, k, Sub_rule(rules[Len(rules) + 1 - k], s))

\* for pat, rep in patterns: content = pat.sub(rep, content), from the k-th
\* rule on; t is content after the k-th rule
RECURSIVE ApplyFrom(_, _, _)
ApplyNext(rules, k, t) ==
    IF Len(t) >= 0 THEN ApplyFrom(rules, k + 1, t) ELSE t

ApplyFrom(rules, k, s) ==
    IF k > Len(rules) THEN s
    ELSE ApplyNext(rules, k, Sub_rule(rules[k], s))

TabularBegin == "\\begin{tabular}"

TabularEnd == "\\end{tabular}"

\* lines 65-66
RowOf(line) == ReplaceAll(ReplaceAll(line, "&", " | "), "\\\\", "")

\* lines 59-62
InTable(line, in_table) ==
    IF Contains(line, TabularBegin) THEN TRUE
    ELSE IF Contains(line, TabularEnd) THEN FALSE
    ELSE in_table

\* the loop of process_table_rows from the k-th line on
RECURSIVE TableRows(_, _, _)
TableRow(lines, k, now) ==
    <<IF now THEN RowOf(lines[k]) ELSE lines[k]>>
    \o TableRows(lines, k + 1, now)

TableRows(lines, k, in_table) ==
    IF k > Len(lines) THEN <<>>
    ELSE TableRow(lines, k, InTable(lines[k], in_table))

process_table_rows(s) == join("\n", TableRows(split(s, "\n"), 1, FALSE))

\* lines 45-47
InputPath(input_path) ==
    IF endswith(input_path, ".tex") THEN input_path
    ELSE input_path \o ".tex"

\* process_inputs of this file: no handler, so a failed open or too deep a
\* nesting ends the run with the exception's traceback
RECURSIVE InputsFrom(_, _, _, _, _)
OpenInput(files, input_path, depth) ==
    IF ~isfile(files, input_path)
    THEN Exit("FileNotFoundError: " \o input_path, <<input_path>>)
    ELSE IF depth >= MaxDepth
    THEN Exit(RecursionError, <<input_path>>)
    ELSE AfterRead(input_path,
                   InputsFrom(files, files[normpath(input_path)],
                              dirname(input_path), 1, depth + 1))

InputsOne(files, s, base, i, depth, m, one) ==
    IF ~one.ok THEN one
    ELSE Spliced(Sub(s, i, m.start - 1), one,
                 InputsFrom(files, s, base, m.end + 1, depth))

InputsMatch(files, s, base, i, depth, m) ==
    IF m.start = 0
    THEN [ok |-> TRUE, text |-> From(s, i), reads |-> <<>>, msg |-> ""]
    ELSE InputsOne(files, s, base, i, depth, m,
                   OpenInput(files, InputPath(os_path_join(base, m.path)),
                             depth))

InputsFrom(files, s, base, i, depth) ==
    InputsMatch(files, s, base, i, depth, NextInput(s, i))

\* A match of \\begin{(aligned|gather)}(.*?)\\end{\1} with DOTALL for one
\* kind: j is the first begin marker of the kind at or after the position
\* the search starts at, e the first end marker of the kind after it.
\* [start, end, kind, body], start = 0 when there is none.
NoMath == [start |-> 0, end |-> 0, kind |-> "", body |-> ""]

MathBegin(kind) == "\\begin{" \o kind \o "}"

MathEnd(kind) == "\\end{" \o kind \o "}"

MathEndAt(s, kind, j, e) ==
    IF e = 0 THEN NoMath
    ELSE [start |-> j, end |-> e + Len(MathEnd(kind)) - 1, kind |-> kind,
          body |-> Sub(s, j + Len(MathBegin(kind)), e - 1)]

MathAt(s, kind, j) ==
    IF j = 0 THEN NoMath
    ELSE MathEndAt(s, kind, j, Find(s, MathEnd(kind), j + Len(MathBegin(kind))))

MathOf(s, kind, i) == MathAt(s, kind, Find(s, MathBegin(kind), i))

\* the leftmost of the matches of the two kinds
Leftmost(a, g) ==
    IF a.start = 0 THEN g
    ELSE IF g.start = 0 THEN a
    ELSE IF a.start < g.start THEN a ELSE g

NextMath(s, i) == Leftmost(MathOf(s, "aligned", i), MathOf(s, "gather", i))

\* lines 76-77: each line stripped and followed by a line break
RECURSIVE StrippedLines(_)
StrippedLines(lines) ==
    IF Len(lines) = 0 THEN ""
    ELSE strip(Head(lines)) \o "\n" \o StrippedLines(Tail(lines))

\* lines 73-79: match.group(1) is the kind of the block
replace_complex_math(match) ==
    "\\begin{equation*}\n" \o StrippedLines(split(match.kind, "\\\\"))
    \o "\\end{equation*}"

\* line 81: re.sub of the block pattern by replace_complex_math, from
\* position i on
RECURSIVE SimplifyFrom(_, _)
SimplifyAt(s, i, m) ==
    IF m.start = 0 THEN From(s, i)
    ELSE Sub(s, i, m.start - 1) \o replace_complex_math(m)
         \o SimplifyFrom(s, m.end + 1)

SimplifyFrom(s, i) == SimplifyAt(s, i, NextMath(s, i))

\* line 84
remove_spacing(s) == ReplaceAll(ReplaceAll(s, "\\quad", " "), "\\,", " ")

simplify_math_environments(s) == remove_spacing(SimplifyFrom(s, 1))

(***************************************************************************)
(* The inputs of the runs of pandoc-vanvliet-preprocess.py.                *)
(***************************************************************************)

\* Most pieces a root text of each family is made of.
MaxMacros == 2

MaxLines == 4

MaxMath == 3

LegacyRoot == "paper/main.tex"

MacroPieces ==
    {" x ", "\\mat{A}", "\\tcov{\\mat{B}}", "\\tcov{\\emat{C}}",
     "\\icov{\\emat{D}}", "\\ticov{\\emat{E}}", "\\tcov{\\text{n}}",
     "\\tcov{F}", "\\emat{G}", "\\icov{H}"}

LinePieces ==
    {"x & y\n", "\\begin{tabular}{cc}\n", "a & b \\\\\n", "\\end{tabular}\n",
     "\\begin{tabular}[t]{c} a & b \\\\ \\end{tabular}\n"}

IncludeRoots ==
    {"\\input{sec}\\hline", "\\input{none}", "\\input{again}",
     "\\multicolumn{2}{c}{a}\\cline{1-2}\\begin{table*}\\trans"}

MathPieces ==
    {"\\begin{aligned}", "x &= 1 \\\\ y &= 2", "\\end{aligned}",
     "\\begin{gather}", "\\end{gather}", " z\\quad w\\,\n"}

LegacyFiles(root) ==
    (LegacyRoot :> root) @@ ("paper/sec.tex" :> "S & T")
    @@ ("paper/again.tex" :> "\\input{again}")

LegacyRoots ==
    Texts(MacroPieces, MaxMacros) \cup Texts(LinePieces, MaxLines)
    \cup Texts(MathPieces, MaxMath)
    \cup IncludeRoots

(***************************************************************************)
(* pandoc-vanvliet-preprocess.py: the module body, one action per stage.   *)
(***************************************************************************)

InitLegacy ==
    /\ \E root \in LegacyRoots : fs = LegacyFiles(root)
    /\ tools = AllTools("ok")
    /\ method = 0
    /\ pc = "start"
    /\ content = ""
    /\ diag = <<>>
    /\ reads = <<>>
    /\ calls = <<>>
    /\ exit_status = -1
    /\ output = NoFile
    /\ hist = <<>>
    /\ regions = <<>>
    /\ FilterIdle

\* lines 139-144: read the root file and expand it
Read(r) ==
    /\ reads' = <<LegacyRoot>> \o r.reads
    /\ IF r.ok
       THEN /\ content' = r.text
            /\ pc' = "expanded"
            /\ hist' = Append(hist, Stage("expanded", r.text))
            /\ UNCHANGED <<diag, exit_status>>
       ELSE /\ pc' = "exited"
            /\ exit_status' = 1
            /\ diag' = Append(diag, r.msg)
            /\ UNCHANGED <<content, hist>>

LegacyReadAndExpand ==
    /\ pc = "start"
    /\ Read(InputsFrom(fs, fs[LegacyRoot], dirname(LegacyRoot), 1, 0))
    /\ UNCHANGED <<fs, method, tools, calls, output, regions>>
    /\ UNCHANGED filterVars

\* lines 146-148
ApplyPatterns ==
    /\ pc = "expanded"
    /\ content' = ApplyFrom(patterns, 1, content)
    /\ pc' = "normalized"
    /\ hist' = Append(hist, Stage("normalized", content'))
    /\ UNCHANGED <<fs, method, tools, diag, reads, calls, exit_status, output,
                   regions>>
    /\ UNCHANGED filterVars

\* line 151
ProcessTableRows ==
    /\ pc = "normalized"
    /\ content' = process_table_rows(content)
    /\ pc' = "linearized"
    /\ hist' = Append(hist, Stage("linearized", content'))
    /\ UNCHANGED <<fs, method, tools, diag, reads, calls, exit_status, output,
                   regions>>
    /\ UNCHANGED filterVars

\* line 154
SimplifyMath ==
    /\ pc = "linearized"
    /\ content' = simplify_math_environments(content)
    /\ pc' = "flattened"
    /\ hist' = Append(hist, Stage("flattened", content'))
    /\ UNCHANGED <<fs, method, tools, diag, reads, calls, exit_status, output,
                   regions>>
    /\ UNCHANGED filterVars

NextLegacy ==
    \/ LegacyReadAndExpand
    \/ ApplyPatterns
    \/ ProcessTableRows
    \/ SimplifyMath

SpecLegacy == InitLegacy /\ [][NextLegacy]_vars

(***************************************************************************)
(* Properties of the run of pandoc-vanvliet-preprocess.py (SpecLegacy).    *)
(***************************************************************************)

HasMarker(line) == Contains(line, TabularBegin) \/ Contains(line, TabularEnd)

\* the last marker of the line is an end marker
EndsClosed(line) == RFind(line, TabularEnd) > RFind(line, TabularBegin)

\* the k-th line holds no marker and lies in no span: the nearest line
\* before it that holds a marker, if there is one, ends with its span closed
Outside(lines, k) ==
    /\ ~HasMarker(lines[k])
    /\ \A j \in 1..(k - 1) :
           (HasMarker(lines[j])
            /\ \A n \in (j + 1)..(k - 1) : ~HasMarker(lines[n]))
               => EndsClosed(lines[j])

\* C6: the Table Linearizer returns every line outside the spans from a
\* table-begin marker to its table-end marker as it was, also when both
\* markers sit on one line, and so returns a text without markers unchanged.
C6_OutsideUnchanged ==
    Reached("linearized")
        => /\ Len(split(AtStage("linearized"), "\n"))
                = Len(split(AtStage("normalized"), "\n"))
           /\ \A k \in 1..Len(split(AtStage("normalized"), "\n")) :
                Outside(split(AtStage("normalized"), "\n"), k)
                    => split(AtStage("linearized"), "\n")[k]
                         = split(AtStage("normalized"), "\n")[k]

\* what the rule list is to make of each macro text
Rendition ==
    (" x " :> " x ")
    @@ ("\\mat{A}" :> "\\mathbf{A}")
    @@ ("\\tcov{\\mat{B}}" :> "$\\mathbf{\\Sigma}_\\mathbf{B}$")
    @@ ("\\tcov{\\emat{C}}" :> "$\\mathbf{\\Sigma}_{\\widehat{\\mathbf{C}}}$")
    @@ ("\\icov{\\emat{D}}"
            :> "\\mathbf{\\Sigma}^{-1}_{\\widehat{\\mathbf{D}}}")
    @@ ("\\ticov{\\emat{E}}"
            :> "$\\mathbf{\\Sigma}^{-1}_{\\widehat{\\mathbf{E}}}$")
    @@ ("\\tcov{\\text{n}}" :> "$\\mathbf{\\Sigma}_\\text{n}$")
    @@ ("\\tcov{F}" :> "$\\mathbf{\\Sigma}_\\mathbf{F}$")
    @@ ("\\emat{G}" :> "\\widehat{\\mathbf{G}}")
    @@ ("\\icov{H}" :> "\\mathbf{\\Sigma}^{-1}_\\mathbf{H}")

\* the text is a sequence of macro texts
RECURSIVE MacroText(_)
MacroText(t) ==
    \/ t = ""
    \/ \E p \in DOMAIN Rendition :
           startswith(t, p) /\ MacroText(From(t, Len(p) + 1))

\* the renditions of the macro texts of t, in order
RECURSIVE RenditionOf(_)
RenderedAfter(t, p) == Rendition[p] \o RenditionOf(From(t, Len(p) + 1))

RenditionOf(t) ==
    IF t = "" THEN ""
    ELSE RenderedAfter(t, CHOOSE p \in DOMAIN Rendition : startswith(t, p))

\* the k-th rule rewrites a macro wrapped around another macro
Composite(k) ==
    patterns[k].kind = "capture" /\ Count(patterns[k].open, "{") = 2

\* the outer and the inner macro of the k-th rule, each with its brace
OuterMacro(k) == Sub(patterns[k].open, 1, Find(patterns[k].open, "{", 1))

InnerMacro(k) == From(patterns[k].open, Find(patterns[k].open, "{", 1) + 1)

\* every composite rule stands before the simple rules of its two macros
CompositesFirst ==
    \A i, j \in 1..Len(patterns) :
        (/\ Composite(i)
         /\ patterns[j].kind = "capture"
         /\ patterns[j].open \in {OuterMacro(i), InnerMacro(i)})
            => i < j

\* C7: one pass through the rule list, in list order, rewrites \mat{A} to
\* \mathbf{A} and \tcov{\mat{B}} to $\mathbf{\Sigma}_\mathbf{B}$, and every
\* macro text, composite or simple, to its own rendition; each composite
\* rule stands in the list before the simple rules of its inner and of its
\* outer macro.
C7_CompositeRulesFirst ==
    /\ CompositesFirst
    /\ (Reached("normalized") /\ MacroText(fs[LegacyRoot]))
           => AtStage("normalized") = RenditionOf(fs[LegacyRoot])

C7_Witness ==
    /\ pc = "normalized"
    /\ fs[LegacyRoot] = "\\mat{A}\\tcov{\\mat{B}}"
    /\ content = "\\mathbf{A}$\\mathbf{\\Sigma}_\\mathbf{B}$"

(***************************************************************************)
(* The order of the stages in the preprocessor run (Spec).                 *)
(***************************************************************************)

\* the stage that comes after the n-th left the text t
Left(n, t) == n < Len(hist) /\ hist[n + 1].text = t

\* C13: in a run that writes its output the Inclusion Expander is followed
\* by the rule list, then by the Table Linearizer, each applied to the text
\* the stage before it left, before the Figure Canonicalizer and the
\* Document Finalizer run.
C13_StagesInOrder ==
    (pc = "exited" /\ exit_status = 0)
        => \E n, l, c \in 1..Len(hist) :
               /\ hist[1].stage = "expanded"
               /\ n < l
               /\ l < c
               /\ hist[c].stage = "centered"
               /\ hist[Len(hist)].stage = "finalized"
               /\ Left(n, ApplyFrom(patterns, 1, hist[n].text))
               /\ Left(l, process_table_rows(hist[l].text))

(***************************************************************************)
(* The math flattening of pandoc-vanvliet-preprocess.py (SpecLegacy).      *)
(***************************************************************************)

\* the content of one line of a block: alignment markers removed, stripped
LineContent(line) == strip(ReplaceAll(line, "&", ""))

HasSpacing(s) == Contains(s, "\\quad") \/ Contains(s, "\\,")

\* the first aligned or gather block of the text the Table Linearizer left
FirstBlock == NextMath(AtStage("linearized"), 1)

\* C14: after the math flattening of a text with an aligned or gather
\* block, the content of every line of the block's body is in the text.
C14_LinesKept ==
    (pc = "flattened" /\ FirstBlock.start > 0 /\ ~HasSpacing(FirstBlock.body))
        => \A k \in 1..Len(split(FirstBlock.body, "\\\\")) :
               Contains(content,
                        LineContent(split(FirstBlock.body, "\\\\")[k]))

(***************************************************************************)
(* The memory of the acronyms used, the placeholders and the image nodes   *)
(* in the filter run (SpecFilter).                                         *)
(***************************************************************************)

\* the filter at hand is resolve_acronyms and the node a Span with an
\* acronym label
AtAcronym ==
    /\ pc = "filter"
    /\ pass = 1
    /\ doc[pos].kind = "Span"
    /\ "label" \in DOMAIN doc[pos]

\* C17: no step takes a label out of refcounts; a label comes into it only
\* when resolve_acronyms is given a node whose label is in the table of
\* acronyms and whose form holds "short"; a node whose label is not in the
\* table is left as it is and refcounts with it.
C17_MemoryGrows ==
    [][/\ refcounts \subseteq refcounts'
       /\ \A l \in refcounts' \ refcounts :
             /\ AtAcronym
             /\ doc[pos].label = l
             /\ l \in DOMAIN acronyms
             /\ Contains(doc[pos].form, "short")
       /\ (AtAcronym /\ doc[pos].label \notin DOMAIN acronyms)
             => /\ refcounts' = refcounts
                /\ doc' = doc]_vars

\* a label has been marked by a short form, another known label asked for
\* in full is not marked, and a node with an unknown label is still there
C17_Witness ==
    /\ pass = 2
    /\ refcounts = {"CPU"}
    /\ \E k \in 1..Len(doc) : doc[k] = AcronymSpan("NA", "singular+short")
    /\ \E k \in 1..Len(hist) :
          /\ hist[k].elem.label = "CPU"
          /\ hist[k].elem.form = "singular+full"

\* the text is a placeholder the registries cannot resolve: its kind is
\* fig and its identifier is not in figures, or tab and not in tables, or
\* the kind is neither
Unresolvable(text) ==
    /\ AutorefMatch(text).matched
    /\ LET kind == AutorefMatch(text).float_type
           identifier == kind \o ":" \o AutorefMatch(text).name
       IN /\ kind = "fig" => identifier \notin DOMAIN figures
          /\ kind = "tab" => identifier \notin DOMAIN tables

\* C18: resolve_autoref changes neither registry; given a placeholder the
\* registries cannot resolve it leaves the document as it is, prints
\* nothing and does not end the run with an error.
C18_UnresolvedKept ==
    [][(pc = "filter" /\ pass = 4)
          => /\ figures' = figures
             /\ tables' = tables
             /\ (doc[pos].kind = "RawInline" /\ Unresolvable(doc[pos].text))
                   => /\ doc' = doc
                      /\ diag' = diag
                      /\ exit_status' # 1]_vars

\* after the pass a placeholder of an unknown figure and one of another
\* kind are still in the document, a figure being registered
C18_Witness ==
    /\ pass = 5
    /\ pos = 1
    /\ DOMAIN figures # {}
    /\ \E k \in 1..Len(doc) : doc[k] = RawInline("\\autoref{sec:a}")
    /\ \E k \in 1..Len(doc) : doc[k] = RawInline("\\autoref{fig:f2}")

\* C19: a step of rasterize_pdf_images on an Image node that does not end
\* the run leaves the node without width.
C19_WidthRemoved ==
    [][(pc = "filter" /\ pass = 5 /\ doc[pos].kind = "Image"
        /\ exit_status' # 1)
          => ~doc'[pos].width]_vars

\* C20: a run in which pdftoppm is missing or exits with an error does not
\* end with exit status 1.
C20_ToolFailureSurvived ==
    (pc = "exited" /\ tools.pdftoppm \in {"missing", "fail"})
        => exit_status = 0

(***************************************************************************)
(* The inclusion graph of a preprocessor run (Spec).                       *)
(***************************************************************************)

\* the paths of the inclusion directives of a text, from position i on
RECURSIVE InputPaths(_, _)
InputPathsAt(t, m) ==
    IF m.start = 0 THEN {} ELSE {m.path} \cup InputPaths(t, m.end + 1)

InputPaths(t, i) == InputPathsAt(t, NextInput(t, i))

\* the files the directives of the file f refer to
Included(f) ==
    IF f \notin DOMAIN fs THEN {}
    ELSE { normpath(Candidate(fs, q, dirname(f))) : q \in InputPaths(fs[f], 1) }

\* the files reached from the files of F by at most n inclusions, F included
RECURSIVE Within(_, _)
Within(F, n) ==
    IF n = 0 THEN F
    ELSE Within(F \cup UNION { Included(f) : f \in F }, n - 1)

\* the files of the inclusion graph of the root file
Graph == Within({RootPath}, Cardinality(DOMAIN fs))

\* no file of the graph is reached from itself
Acyclic ==
    \A f \in Graph : f \notin Within(Included(f), Cardinality(DOMAIN fs))

\* C21: when the inclusion graph of the root file has no cycle and all its
\* files are there, the run does not end in the Inclusion Expander: the
\* expansion returns a text.
C21_AcyclicExpands ==
    (pc # "start" /\ Acyclic /\ Graph \subseteq DOMAIN fs)
        => Reached("expanded")

\* the file a directive with the path q names in the directory dir
Primary(q, dir) == ensure_tex(os_path_join(dir, normpath(q)))

\* the same without the leading root alias of the path
Stripped(q, dir) ==
    os_path_join(dir, ensure_tex(normpath(From(normpath(q),
                                               Len("paper" \o os_sep) + 1))))

\* path is what the directive q of a file in dir is resolved to
Resolves(path, q, dir) ==
    \/ path = Primary(q, dir)
    \/ /\ path = Stripped(q, dir)
       /\ startswith(normpath(q), "paper" \o os_sep)
       /\ ~exists(fs, Primary(q, dir))

\* C22: when the Inclusion Expander has returned or ended the run (reads
\* does not change after it), every file it opened after the root file is
\* named by a directive of a file opened before it, resolved in the
\* directory of that file; it is the path without the root alias only when
\* the path with it names no file in that directory.
C22_ResolvedInOwnDirectory ==
    pc \in {"expanded", "exited"}
        => \A k \in 2..Len(reads) :
               \E j \in 1..(k - 1) :
                   /\ isfile(fs, reads[j])
                   /\ \E q \in InputPaths(fs[normpath(reads[j])], 1) :
                         Resolves(reads[k], q, dirname(reads[j]))

\* sec/a.tex asks for b and sec/b.tex is read, not the b.tex beside the
\* root file; paper/c.tex is there and is read, not c.tex
C22_Witness ==
    /\ pc = "expanded"
    /\ fs[RootPath] = "\\input{sec/a}\\input{paper/c}"
    /\ reads = <<RootPath, "/p/sec/a.tex", "/p/sec/b.tex", "/p/paper/c.tex">>
    /\ exists(fs, "/p/b.tex")
    /\ exists(fs, "/p/c.tex")
    /\ content = "ABP"

(***************************************************************************)
(* Figure regions with several image directives (Spec).                    *)
(***************************************************************************)

\* the paths of the image directives of the region after the first
Later(o) == DirectivePaths(o.region, NextImage(o.region, 1).end + 1)

\* the region has more than one image directive
Several(o) == NextImage(o.region, 1).start # 0 /\ Later(o) # {}

\* the number of image directives of a text, from position i on
RECURSIVE Directives(_, _)
DirectivesAt(t, m) ==
    IF m.start = 0 THEN 0 ELSE 1 + Directives(t, m.end + 1)

Directives(t, i) == DirectivesAt(t, NextImage(t, i))

\* the file the directives are to name for an image found at image_path
AssetOf(image_path) ==
    IF endswith(lower(image_path), ".png") THEN image_path
    ELSE PngOf(image_path)

\* the first image is found, at one of paths, and if it is no .png file its
\* .png file is there or the tool for it exits with status 0
Converts(o, paths) ==
    /\ paths # {}
    /\ \A image_path \in paths :
          NeedsTool(o, image_path) => ConversionError(image_path) = ""

\* every directive names the asset of the first image and the paths of the
\* later ones are gone
AllToFirst(o, paths) ==
    /\ Directives(o.text, 1) = Directives(o.region, 1)
    /\ \E image_path \in paths :
          DirectivePaths(o.text, 1) = {AssetOf(image_path)}
    /\ \A q \in Later(o) : ~Contains(o.text, q)

====
